---- MODULE Spec2Model ----
(***************************************************************************)
(* The ingestion daemon of state-consumer and the PostgreSQL store it      *)
(* writes to.  The store is two tables (blocks_microblocks, data_entries)  *)
(* and two sequences; the daemon runs one database transaction at startup  *)
(* and one per received batch.                                             *)
(*                                                                         *)
(* Option<T> is modelled as a set with at most one element: None = {} and  *)
(* Some(x) = {x}.  Result<T> is modelled by the field ok of the working     *)
(* copy of the store: once ok is FALSE every later operation is skipped,   *)
(* as the ? operator does.                                                 *)
(***************************************************************************)
EXTENDS Integers, Sequences, FiniteSets, TLC

VARIABLES
    blocks,                 \* committed rows of blocks_microblocks
    data_entries,           \* committed rows of data_entries
    data_entries_uid_seq,   \* last_value of the sequence data_entries_uid_seq
    blocks_uid_seq,         \* next uid the store assigns to a blocks_microblocks row
    pc,                     \* position of the daemon: "init", "running", "failed"
    rx,                     \* the batch in flight on the channel, <<>> when none
    starting_from_height,   \* the height the daemon subscribed from
    start_rollback_depth,   \* the configured depth of the running process
    delivered,              \* how many Block and Microblock events the upstream has delivered
    block_event_uids,       \* history: uids of the rows inserted from Block events
    assigned_uids,          \* history: the uids committed appends assigned, in order
    step,                   \* the kind of the last step taken
    result,                 \* source task: the pending batch
    last_height,            \* source task: the height of the last message read
    start,                  \* source task: the instant the pending batch started
    now,                    \* the clock
    tx,                     \* source task: the batches sent on the channel, in order
    batch_max_size,         \* source task: the configured updates_per_request
    batch_max_wait,         \* source task: the configured max_wait_time_in_secs
    task,                   \* source task: "idle", "running", "sending", "failed"
    channel,                \* the batches buffered on the channel, oldest first
    last_block,             \* readiness: the LastBlock of the reporter (timestamp, last_change)
    readiness_rx,           \* readiness: the statuses sent on the readiness channel, in order
    poll,                   \* readiness: how the last poll went
    value,                  \* decoder: the raw message given to try_from, {} when none
    decoded,                \* decoder: what try_from gave for it
    entry_key,              \* fragments: the key (or string value) of a data entry
    fragments,              \* fragments: the typed fragments the key was built from, {} when none
    columns,                \* fragments: the fragment columns stored for the key
    stream_events,          \* history: the events decoded from the upstream stream, in order
    received_batches        \* history: the batches the daemon took from the channel, in order

daemon_vars == <<blocks, data_entries, data_entries_uid_seq, blocks_uid_seq, pc, rx,
                 starting_from_height, start_rollback_depth, delivered,
                 block_event_uids, assigned_uids, step>>

source_vars == <<result, last_height, start, now, tx, batch_max_size, batch_max_wait>>

channel_vars == <<task, channel>>

reporter_vars == <<last_block, readiness_rx, poll>>

decoder_vars == <<value, decoded>>

fragment_vars == <<entry_key, fragments, columns>>

pure_vars == <<decoder_vars, fragment_vars>>

log_vars == <<stream_events, received_batches>>

other_vars == <<channel_vars, reporter_vars, pure_vars, log_vars>>

vars == <<daemon_vars, source_vars, other_vars>>

----------------------------------------------------------------------------
(* Bounds of the model *)

MaxAppends == 3     \* Block and Microblock events the upstream delivers in one behaviour
MaxBatch == 2       \* events per batch
MaxDepth == 1       \* start_rollback_depth values tried
MaxMessages == 3    \* messages the source task reads from the stream
MaxTime == 3        \* the clock stops here
MaxWait == 2        \* batch_max_wait values tried
MaxAnyBatch == 4    \* events of a batch of any shape
MaxPolls == 7       \* polls of the readiness reporter
MaxHeight == 2      \* heights of the raw messages
MaxFragments == 2   \* typed fragments a key is built from
MaxKeyLen == 4      \* characters of a key that is not built from fragments

(* The blocks the upstream can send: an id stands for one block of the    *)
(* chain, so it fixes the height; A and B are two records of one height   *)
Ids == {"A", "B", "C"}
HeightOf == [i \in Ids |-> IF i = "C" THEN 2 ELSE 1]
Addresses == {"x"}
Keys == {"k1", "k2"}
Values == {7}
Timestamps == {1000}

(* std::i64::MAX, scaled to the integers TLC computes with *)
I64_MAX == 2147483647
MAX_UID == I64_MAX - 1

----------------------------------------------------------------------------
(* Helpers *)

Max(S) == CHOOSE x \in S : \A y \in S : y <= x
Min(S) == CHOOSE x \in S : \A y \in S : x <= y

(* The elements of a set of records, as a sequence ascending by uid *)
RECURSIVE sorted_by_uid(_)
sorted_by_uid(S) ==
    IF S = {} THEN <<>>
    ELSE LET m == CHOOSE r \in S : \A q \in S : r.uid <= q.uid
         IN <<m>> \o sorted_by_uid(S \ {m})

----------------------------------------------------------------------------
(* Events *)

DataEntry == [address : Addresses, key : Keys, value : Values]

DataEntryLists ==
    {<<>>} \cup {<<e>> : e \in DataEntry}

BlockEvents ==
    {[type |-> "Block", id |-> i, time_stamp |-> t, height |-> HeightOf[i],
      data_entries |-> l] :
        i \in Ids, t \in {{}} \cup {{ts} : ts \in Timestamps}, l \in DataEntryLists}

MicroblockEvents ==
    {[type |-> "Microblock", id |-> i, time_stamp |-> {}, height |-> HeightOf[i],
      data_entries |-> l] : i \in Ids, l \in DataEntryLists}

RollbackEvents == [type : {"Rollback"}, id : Ids]

BlockchainUpdate == BlockEvents \cup MicroblockEvents \cup RollbackEvents

(* The batches the source task sends: it flushes at every Microblock and  *)
(* Rollback, so only the last event of a batch can be one of them         *)
Batches(n) ==
    {b \in [1..n -> BlockchainUpdate] : \A i \in 1..(n - 1) : b[i].type = "Block"}

----------------------------------------------------------------------------
(* The store: repo.rs.  Each operation takes the working copy db of the   *)
(* store inside a transaction and gives the new working copy.             *)

Fail(db) == [db EXCEPT !.ok = FALSE]

(* Faulty variant: the highest uid at the height *)
get_handled_height_last(db, depth) ==
    IF db.blocks = {} THEN {}
    ELSE LET h == Max({b.height : b \in db.blocks}) - depth
             at == {b \in db.blocks : b.height = h}
         IN IF at = {} THEN {}
            ELSE LET f == CHOOSE b \in at : \A c \in at : c.uid <= b.uid
                 IN {[uid |-> f.uid, height |-> f.height]}

get_handled_height(db, depth) ==
    IF db.blocks = {} THEN {}
    ELSE LET h == Max({b.height : b \in db.blocks}) - depth
             at == {b \in db.blocks : b.height = h}
         IN IF at = {} THEN {}
            ELSE LET f == CHOOSE b \in at : \A c \in at : b.uid <= c.uid
                 IN {[uid |-> f.uid, height |-> f.height]}

get_block_uid(db, block_id) ==
    {b.uid : b \in {c \in db.blocks : c.id = block_id}}

get_key_block_uid(db) ==
    LET ks == {b.uid : b \in {c \in db.blocks : c.time_stamp # {}}}
    IN IF ks = {} THEN {} ELSE {Max(ks)}

get_total_block_id(db) ==
    LET ms == {b \in db.blocks : b.time_stamp = {}}
    IN IF ms = {} THEN {}
       ELSE {(CHOOSE b \in ms : \A c \in ms : c.uid <= b.uid).id}

(* Faulty variant: the next uid is computed from the rows of the table *)
get_next_update_uid_from_rows(db) ==
    IF db.entries = {} THEN 1 ELSE Max({r.uid : r \in db.entries}) + 1

get_next_update_uid(db) == db.seq

(* The uids RETURNING gives, in input order *)
inserted_uids(db, items) == [i \in 1..Len(items) |-> db.bseq + i - 1]

insert_blocks_or_microblocks(db, items) ==
    IF ~db.ok THEN db
    ELSE LET dup == {i \in 1..Len(items) :
                        \/ \E b \in db.blocks : b.id = items[i].id
                        \/ \E j \in 1..(i - 1) : items[j].id = items[i].id}
         IN IF dup # {}
            THEN [db EXCEPT !.ok = FALSE, !.bseq = db.bseq + Min(dup)]
            ELSE [db EXCEPT
                    !.blocks = db.blocks \cup
                        {[uid |-> db.bseq + i - 1, id |-> items[i].id,
                          height |-> items[i].height,
                          time_stamp |-> items[i].time_stamp] : i \in 1..Len(items)},
                    !.bseq = db.bseq + Len(items)]

(* The primary key of data_entries is (superseded_by, address, key) *)
PrimaryKeyOk(rows) ==
    \A r \in rows : \A q \in rows :
        (r.superseded_by = q.superseded_by /\ r.address = q.address /\ r.key = q.key)
            => r = q

insert_data_entries(db, entries) ==
    IF ~db.ok THEN db
    ELSE LET rows == db.entries \cup {entries[i] : i \in 1..Len(entries)}
         IN IF PrimaryKeyOk(rows) /\ Cardinality(rows) = Cardinality(db.entries) + Len(entries)
            THEN [db EXCEPT !.entries = rows,
                            !.assigned = @ \o [i \in 1..Len(entries) |-> entries[i].uid]]
            ELSE Fail(db)

(* Faulty variant: no row is closed *)
close_superseded_by_none(db, updates) == db

close_superseded_by(db, updates) ==
    IF ~db.ok THEN db
    ELSE LET hit(r) == {u \in updates : u.address = r.address /\ u.key = r.key}
             rows == {IF r.superseded_by = MAX_UID /\ hit(r) # {}
                      THEN [r EXCEPT !.superseded_by = (CHOOSE u \in hit(r) : TRUE).superseded_by]
                      ELSE r : r \in db.entries}
         IN IF PrimaryKeyOk(rows) /\ Cardinality(rows) = Cardinality(db.entries)
            THEN [db EXCEPT !.entries = rows]
            ELSE Fail(db)

reopen_superseded_by(db, current_superseded_by) ==
    IF ~db.ok THEN db
    ELSE LET rows == {IF r.superseded_by \in current_superseded_by
                      THEN [r EXCEPT !.superseded_by = MAX_UID]
                      ELSE r : r \in db.entries}
         IN IF PrimaryKeyOk(rows) /\ Cardinality(rows) = Cardinality(db.entries)
            THEN [db EXCEPT !.entries = rows]
            ELSE Fail(db)

(* Faulty variant: the sequence is left one behind *)
set_next_update_uid_behind(db, new_uid) ==
    IF ~db.ok THEN db ELSE [db EXCEPT !.seq = new_uid - 1]

set_next_update_uid(db, new_uid) ==
    IF ~db.ok THEN db ELSE [db EXCEPT !.seq = new_uid]

change_block_id(db, block_uid, new_block_id) ==
    IF ~db.ok THEN db
    ELSE IF \E b \in db.blocks : b.uid # block_uid /\ b.id = new_block_id
         THEN Fail(db)
         ELSE [db EXCEPT !.blocks =
                  {IF b.uid = block_uid THEN [b EXCEPT !.id = new_block_id] ELSE b
                     : b \in db.blocks}]

(* Faulty variant: the entries above the key block are deleted, not re-pointed *)
update_data_entries_block_references_deleting(db, block_uid) ==
    IF ~db.ok THEN db
    ELSE [db EXCEPT !.entries = {r \in db.entries : ~(r.block_uid > block_uid)}]

(* Faulty variant: no data entry is re-pointed *)
update_data_entries_block_references_none(db, block_uid) == db

update_data_entries_block_references(db, block_uid) ==
    IF ~db.ok THEN db
    ELSE [db EXCEPT !.entries =
             {IF r.block_uid > block_uid THEN [r EXCEPT !.block_uid = block_uid] ELSE r
                : r \in db.entries}]

(* Faulty variant: only the highest-uid microblock is deleted *)
delete_microblocks_last(db) ==
    IF ~db.ok THEN db
    ELSE LET ms == {b \in db.blocks : b.time_stamp = {}}
         IN [db EXCEPT !.blocks =
                {b \in db.blocks : b.time_stamp # {} \/ \E c \in ms : c.uid > b.uid}]

delete_microblocks(db) ==
    IF ~db.ok THEN db
    ELSE [db EXCEPT !.blocks = {b \in db.blocks : b.time_stamp # {}}]

(* Faulty variant: the target record is deleted with the records above it *)
rollback_blocks_microblocks_inclusive(db, block_uid) ==
    IF ~db.ok THEN db
    ELSE [db EXCEPT !.blocks = {b \in db.blocks : ~(b.uid >= block_uid)}]

rollback_blocks_microblocks(db, block_uid) ==
    IF ~db.ok THEN db
    ELSE [db EXCEPT !.blocks = {b \in db.blocks : ~(b.uid > block_uid)}]

(* The rows DELETE ... RETURNING gives *)
deleted_data_entries(db, block_uid) == {r \in db.entries : r.block_uid > block_uid}

rollback_data_entries(db, block_uid) ==
    IF ~db.ok THEN db
    ELSE [db EXCEPT !.entries = db.entries \ deleted_data_entries(db, block_uid)]

----------------------------------------------------------------------------
(* The daemon: daemon.rs *)

(* daemon.rs rollback: the lowest deleted uid of every (address, key) *)
(* Faulty variant: the highest deleted uid of every (address, key) *)
highest_deleted_uids(deletes) ==
    {Max({d.uid : d \in {e \in deletes : e.address = g.address /\ e.key = g.key}})
        : g \in deletes}

lowest_deleted_uids(deletes) ==
    {Min({d.uid : d \in {e \in deletes : e.address = g.address /\ e.key = g.key}})
        : g \in deletes}

(* Faulty variant: the sequence is rewound to the lowest deleted uid *)
rollback_rewinding(db, block_uid) ==
    LET deletes == deleted_data_entries(db, block_uid)
        d1 == rollback_data_entries(db, block_uid)
        d2 == reopen_superseded_by(d1, lowest_deleted_uids(deletes))
        d3 == rollback_blocks_microblocks(d2, block_uid)
    IN IF deletes = {} THEN d3
       ELSE set_next_update_uid(d3, Min({e.uid : e \in deletes}))

rollback(db, block_uid) ==
    LET deletes == deleted_data_entries(db, block_uid)
        d1 == rollback_data_entries(db, block_uid)
        d2 == reopen_superseded_by(d1, lowest_deleted_uids(deletes))
    IN rollback_blocks_microblocks(d2, block_uid)

(* Faulty variant: the index is not added to next_uid *)
insertable_same_uid(updates, next_uid) ==
    [i \in 1..Len(updates) |->
        [block_uid |-> updates[i].block_uid,
         uid |-> next_uid,
         superseded_by |-> -1,
         address |-> updates[i].data_entry.address,
         key |-> updates[i].data_entry.key,
         value |-> updates[i].data_entry.value]]

(* daemon.rs append_data_entries, the map over the enumerated updates *)
insertable(updates, next_uid) ==
    [i \in 1..Len(updates) |->
        [block_uid |-> updates[i].block_uid,
         uid |-> next_uid + (i - 1),
         superseded_by |-> -1,
         address |-> updates[i].data_entry.address,
         key |-> updates[i].data_entry.key,
         value |-> updates[i].data_entry.value]]

(* The HashMap keyed by (address, key): the groups, each as a set of entries *)
grouped_updates(entries) ==
    {{entries[j] : j \in {k \in 1..Len(entries) :
                             /\ entries[k].address = entries[i].address
                             /\ entries[k].key = entries[i].key}}
        : i \in 1..Len(entries)}

(* The reverse walk over a group sorted by uid: positions i..1 get        *)
(* superseded_by = last_uid, and last_uid becomes the uid just visited    *)
RECURSIVE walk_rev(_, _, _)
walk_rev(updates, i, last_uid) ==
    IF i = 0 THEN updates
    ELSE walk_rev([updates EXCEPT ![i].superseded_by = last_uid], i - 1, updates[i].uid)

(* Faulty variant: the tail of a group gets the value below the sentinel *)
with_uids_superseded_by_below(group) ==
    LET updates == sorted_by_uid(group)
    IN walk_rev(updates, Len(updates), I64_MAX - 2)

with_uids_superseded_by(group) ==
    LET updates == sorted_by_uid(group)
    IN walk_rev(updates, Len(updates), I64_MAX - 1)

(* Faulty variant: the last uid of each group closes the previous current row *)
last_uids(groups) ==
    {[address |-> g[1].address, key |-> g[1].key, superseded_by |-> g[Len(g)].uid]
        : g \in groups}

(* First uid of each group of a new batch: it closes the previous current row *)
first_uids(groups) ==
    {[address |-> g[1].address, key |-> g[1].key, superseded_by |-> g[1].uid]
        : g \in groups}

append_data_entries(db, updates) ==
    IF ~db.ok THEN db
    ELSE LET next_uid == get_next_update_uid(db)
             updates_count == Len(updates)
             entries == insertable(updates, next_uid)
             groups == {with_uids_superseded_by(g) : g \in grouped_updates(entries)}
             d1 == close_superseded_by(db, first_uids(groups))
             flat == sorted_by_uid(UNION {{g[i] : i \in 1..Len(g)} : g \in groups})
             d2 == insert_data_entries(d1, flat)
         IN set_next_update_uid(d2, next_uid + updates_count)

(* daemon.rs append_data_entries, the working copy before and after each  *)
(* of its three store calls: close, insert, set the sequence              *)
append_data_entries_steps(db, updates) ==
    LET next_uid == get_next_update_uid(db)
        updates_count == Len(updates)
        entries == insertable(updates, next_uid)
        groups == {with_uids_superseded_by(g) : g \in grouped_updates(entries)}
        d1 == close_superseded_by(db, first_uids(groups))
        flat == sorted_by_uid(UNION {{g[i] : i \in 1..Len(g)} : g \in groups})
        d2 == insert_data_entries(d1, flat)
        d3 == set_next_update_uid(d2, next_uid + updates_count)
    IN <<db, d1, d2, d3>>

(* The (block_uid, data_entry) pairs of the appends, in order *)
RECURSIVE flatten_data_entries(_, _, _)
flatten_data_entries(block_uids, appends, i) ==
    IF i > Len(appends) THEN <<>>
    ELSE [j \in 1..Len(appends[i].data_entries) |->
             [block_uid |-> block_uids[i], data_entry |-> appends[i].data_entries[j]]]
         \o flatten_data_entries(block_uids, appends, i + 1)

append_blocks_or_microblocks(db, appends) ==
    IF ~db.ok THEN db
    ELSE LET block_uids == inserted_uids(db, appends)
             d1 == insert_blocks_or_microblocks(db,
                      [i \in 1..Len(appends) |->
                          [id |-> appends[i].id, height |-> appends[i].height,
                           time_stamp |-> appends[i].time_stamp]])
             updates == flatten_data_entries(block_uids, appends, 1)
         IN IF ~d1.ok THEN d1
            ELSE IF Len(updates) > 0 THEN append_data_entries(d1, updates)
            ELSE d1

squash_microblocks(db) ==
    IF ~db.ok THEN db
    ELSE LET total_block_id == get_total_block_id(db)
         IN IF total_block_id = {} THEN db
            ELSE LET kb == get_key_block_uid(db)
                 IN IF kb = {} THEN Fail(db)
                    ELSE LET key_block_uid == CHOOSE u \in kb : TRUE
                             d1 == update_data_entries_block_references(db, key_block_uid)
                             d2 == delete_microblocks(d1)
                         IN change_block_id(d2, key_block_uid,
                                            CHOOSE t \in total_block_id : TRUE)

(* Faulty variant: every block becomes an item of its own *)
RECURSIVE coalesce_no_merge(_, _)
coalesce_no_merge(updates, acc) ==
    IF updates = <<>> THEN acc
    ELSE LET cur == Head(updates)
         IN coalesce_no_merge(Tail(updates),
               IF cur.type = "Block"
               THEN Append(acc, [type |-> "Blocks", blocks |-> <<cur>>])
               ELSE IF cur.type = "Microblock"
               THEN Append(acc, [type |-> "Microblock", mba |-> cur])
               ELSE Append(acc, [type |-> "Rollback", sig |-> cur.id]))

(* daemon.rs start, the fold that merges consecutive blocks *)
RECURSIVE coalesce(_, _)
coalesce(updates, acc) ==
    IF updates = <<>> THEN acc
    ELSE LET cur == Head(updates)
             len == Len(acc)
         IN coalesce(Tail(updates),
               IF cur.type = "Block"
               THEN IF len > 0 /\ acc[len].type = "Blocks"
                    THEN [acc EXCEPT ![len].blocks = Append(acc[len].blocks, cur)]
                    ELSE Append(acc, [type |-> "Blocks", blocks |-> <<cur>>])
               ELSE IF cur.type = "Microblock"
               THEN Append(acc, [type |-> "Microblock", mba |-> cur])
               ELSE Append(acc, [type |-> "Rollback", sig |-> cur.id]))

UpdatesItems(updates) == coalesce(updates, <<>>)

(* Faulty variant: a Microblock item squashes before it appends *)
handle_item_squashes_always(db, update_item) ==
    IF ~db.ok THEN db
    ELSE IF update_item.type = "Blocks"
    THEN LET d1 == squash_microblocks(db)
             d2 == append_blocks_or_microblocks(d1, update_item.blocks)
         IN [d2 EXCEPT !.from_block =
                IF d2.ok THEN @ \cup {d1.bseq + i - 1 : i \in 1..Len(update_item.blocks)}
                ELSE @]
    ELSE IF update_item.type = "Microblock"
    THEN append_blocks_or_microblocks(squash_microblocks(db), <<update_item.mba>>)
    ELSE LET found == get_block_uid(db, update_item.sig)
         IN IF found = {} THEN Fail(db)
            ELSE rollback(db, CHOOSE u \in found : TRUE)

(* Faulty variant: a Rollback to an unknown id is skipped *)
handle_item_skips_unknown(db, update_item) ==
    IF ~db.ok THEN db
    ELSE IF update_item.type = "Blocks"
    THEN LET d1 == squash_microblocks(db)
             d2 == append_blocks_or_microblocks(d1, update_item.blocks)
         IN [d2 EXCEPT !.from_block =
                IF d2.ok THEN @ \cup {d1.bseq + i - 1 : i \in 1..Len(update_item.blocks)}
                ELSE @]
    ELSE IF update_item.type = "Microblock"
    THEN append_blocks_or_microblocks(db, <<update_item.mba>>)
    ELSE LET found == get_block_uid(db, update_item.sig)
         IN IF found = {} THEN db
            ELSE rollback(db, CHOOSE u \in found : TRUE)

(* daemon.rs start, the body of try_fold for one item *)
handle_item(db, update_item) ==
    IF ~db.ok THEN db
    ELSE IF update_item.type = "Blocks"
    THEN LET d1 == squash_microblocks(db)
             d2 == append_blocks_or_microblocks(d1, update_item.blocks)
         IN [d2 EXCEPT !.from_block =
                IF d2.ok THEN @ \cup {d1.bseq + i - 1 : i \in 1..Len(update_item.blocks)}
                ELSE @]
    ELSE IF update_item.type = "Microblock"
    THEN append_blocks_or_microblocks(db, <<update_item.mba>>)
    ELSE LET found == get_block_uid(db, update_item.sig)
         IN IF found = {} THEN Fail(db)
            ELSE rollback(db, CHOOSE u \in found : TRUE)

(* The items 1..n of a batch applied in order *)
RECURSIVE handle_items(_, _, _)
handle_items(db, items, n) ==
    IF n = 0 THEN db
    ELSE handle_item(handle_items(db, items, n - 1), items[n])

(* daemon.rs start, the startup transaction *)
startup(db, depth) ==
    LET prev == get_handled_height(db, depth)
    IN IF prev = {} THEN [db |-> db, height |-> 1]
       ELSE LET p == CHOOSE q \in prev : TRUE
            IN [db |-> rollback(db, p.uid), height |-> p.height + 1]

----------------------------------------------------------------------------
(* The state machine *)

(* The working copy a transaction starts from *)
Store == [blocks |-> blocks, entries |-> data_entries,
          seq |-> data_entries_uid_seq, bseq |-> blocks_uid_seq, ok |-> TRUE,
          from_block |-> block_event_uids, assigned |-> assigned_uids]

(* The history keeps the uids of the rows that are still there *)
Surviving(uids, rows) == {u \in uids : \E b \in rows : b.uid = u}

(* readiness.rs channel: the reporter before its first poll *)
ReporterIdle ==
    /\ last_block = [timestamp |-> 0, last_change |-> 0]
    /\ readiness_rx = <<>>
    /\ poll = "idle"

(* No message has been decoded and no key split *)
PureIdle ==
    /\ value = {}
    /\ decoded = {}
    /\ entry_key = <<>>
    /\ fragments = {}
    /\ columns = {}

(* Nothing was read from the stream and nothing taken from the channel *)
NothingLogged ==
    /\ stream_events = <<>>
    /\ received_batches = <<>>

(* The parts of the program a specification leaves aside *)
OthersIdle ==
    /\ task = "idle"
    /\ channel = <<>>
    /\ ReporterIdle
    /\ PureIdle
    /\ NothingLogged

(* The source task before it is spawned *)
SourceIdle ==
    /\ result = <<>>
    /\ last_height = 0
    /\ start = 0
    /\ now = 0
    /\ tx = <<>>
    /\ batch_max_size = MaxBatch
    /\ batch_max_wait = 0

Init ==
    /\ blocks = {}
    /\ data_entries = {}
    /\ data_entries_uid_seq = 1
    /\ blocks_uid_seq = 1
    /\ pc = "init"
    /\ rx = <<>>
    /\ starting_from_height = 0
    /\ start_rollback_depth = 0
    /\ delivered = 0
    /\ block_event_uids = {}
    /\ assigned_uids = <<>>
    /\ step = "init"
    /\ SourceIdle
    /\ OthersIdle

(* start: the startup transaction, then the subscription *)
Start(depth) ==
    /\ pc = "init"
    /\ LET r == startup(Store, depth)
       IN /\ r.db.ok
          /\ blocks' = r.db.blocks
          /\ data_entries' = r.db.entries
          /\ data_entries_uid_seq' = r.db.seq
          /\ blocks_uid_seq' = r.db.bseq
          /\ starting_from_height' = r.height
          /\ block_event_uids' = Surviving(block_event_uids, r.db.blocks)
    /\ start_rollback_depth' = depth
    /\ pc' = "running"
    /\ rx' = <<>>
    /\ step' = "start"
    /\ UNCHANGED <<delivered, assigned_uids, source_vars, other_vars>>

Appends(batch) == {i \in 1..Len(batch) : batch[i].type # "Rollback"}

(* The source task puts a batch on the channel *)
Send(batch) ==
    /\ pc = "running"
    /\ rx = <<>>
    /\ delivered + Cardinality(Appends(batch)) <= MaxAppends
    /\ rx' = batch
    /\ delivered' = delivered + Cardinality(Appends(batch))
    /\ step' = "send"
    /\ UNCHANGED <<blocks, data_entries, data_entries_uid_seq, blocks_uid_seq, pc,
                   starting_from_height, start_rollback_depth, block_event_uids,
                   assigned_uids, source_vars, other_vars>>

(* Faulty variant: the items run on a plain connection, so a failure keeps the   *)
(* work done before it                                                    *)
ProcessBatchNoTransaction ==
    /\ pc = "running"
    /\ rx # <<>>
    /\ LET items == UpdatesItems(rx)
           r == handle_items(Store, items, Len(items))
           done == CHOOSE n \in 0..Len(items) :
                      /\ handle_items(Store, items, n).ok
                      /\ \A m \in (n + 1)..Len(items) : ~handle_items(Store, items, m).ok
           kept == handle_items(Store, items, done)
       IN /\ data_entries_uid_seq' = r.seq
          /\ blocks_uid_seq' = r.bseq
          /\ blocks' = kept.blocks
          /\ data_entries' = kept.entries
          /\ block_event_uids' = Surviving(kept.from_block, kept.blocks)
          /\ assigned_uids' = kept.assigned
          /\ pc' = IF r.ok THEN "running" ELSE "failed"
          /\ step' = IF r.ok THEN "commit" ELSE "abort"
    /\ rx' = <<>>
    /\ UNCHANGED <<starting_from_height, start_rollback_depth, delivered, source_vars, other_vars>>

(* The daemon receives the batch and runs its transaction.  A sequence is  *)
(* not transactional: setval and nextval are kept when the transaction is  *)
(* rolled back.                                                            *)
ProcessBatch ==
    /\ pc = "running"
    /\ rx # <<>>
    /\ LET items == UpdatesItems(rx)
           r == handle_items(Store, items, Len(items))
       IN /\ data_entries_uid_seq' = r.seq
          /\ blocks_uid_seq' = r.bseq
          /\ IF r.ok
             THEN /\ blocks' = r.blocks
                  /\ data_entries' = r.entries
                  /\ block_event_uids' = Surviving(r.from_block, r.blocks)
                  /\ assigned_uids' = r.assigned
                  /\ pc' = "running"
                  /\ step' = "commit"
             ELSE /\ UNCHANGED <<blocks, data_entries, block_event_uids, assigned_uids>>
                  /\ pc' = "failed"
                  /\ step' = "abort"
    /\ rx' = <<>>
    /\ UNCHANGED <<starting_from_height, start_rollback_depth, delivered, source_vars, other_vars>>

(* A store operation fails, or the daemon is cancelled, after n items of   *)
(* the batch: the transaction is rolled back and the daemon stops          *)
BatchInterrupted(n) ==
    /\ pc = "running"
    /\ rx # <<>>
    /\ LET items == UpdatesItems(rx)
           r == handle_items(Store, items, n)
       IN /\ n < Len(items)
          /\ data_entries_uid_seq' = r.seq
          /\ blocks_uid_seq' = r.bseq
    /\ UNCHANGED <<blocks, data_entries, starting_from_height, start_rollback_depth,
                   delivered, block_event_uids, assigned_uids, source_vars, other_vars>>
    /\ pc' = "failed"
    /\ rx' = <<>>
    /\ step' = "interrupted"

(* The supervisor restarts the process *)
Restart ==
    /\ pc \in {"running", "failed"}
    /\ pc' = "init"
    /\ rx' = <<>>
    /\ step' = "restart"
    /\ UNCHANGED <<blocks, data_entries, data_entries_uid_seq, blocks_uid_seq,
                   starting_from_height, start_rollback_depth, delivered,
                   block_event_uids, assigned_uids, source_vars, other_vars>>

Next ==
    \/ \E depth \in 0..MaxDepth : Start(depth)
    \/ \E n \in 1..MaxBatch : \E batch \in Batches(n) : Send(batch)
    \/ ProcessBatch
    \/ \E n \in 0..(MaxBatch - 1) : BatchInterrupted(n)
    \/ Restart

Spec == Init /\ [][Next]_vars

----------------------------------------------------------------------------
(* The source task: updates.rs run.  The daemon is left aside: the task    *)
(* reads the upstream stream, batches and sends on the channel.            *)

(* The messages of the upstream stream: an update and its height; an       *)
(* appended block or microblock carries the height of its message          *)
SourceUpdates ==
    {u \in BlockchainUpdate :
        /\ u.id \in {"A", "C"}
        /\ u.type # "Rollback" => u.data_entries = <<>>
        /\ u.type = "Block" => u.time_stamp # {}}

SubscribeEvents ==
    {[update |-> u, height |-> u.height] : u \in {v \in SourceUpdates : v.type # "Rollback"}}
    \cup {[update |-> u, height |-> h] :
            u \in {v \in SourceUpdates : v.type = "Rollback" /\ v.id = "A"}, h \in 1..2}

(* Messages read from the stream so far *)
RECURSIVE Received(_)
Received(batches) ==
    IF batches = <<>> THEN Len(result)
    ELSE Len(Head(batches).updates) + Received(Tail(batches))

SourceInit ==
    /\ blocks = {}
    /\ data_entries = {}
    /\ data_entries_uid_seq = 1
    /\ blocks_uid_seq = 1
    /\ pc = "running"
    /\ rx = <<>>
    /\ starting_from_height = 1
    /\ start_rollback_depth = 0
    /\ delivered = 0
    /\ block_event_uids = {}
    /\ assigned_uids = <<>>
    /\ step = "start"
    /\ result = <<>>
    /\ last_height = starting_from_height
    /\ start = 0
    /\ now = 0
    /\ tx = <<>>
    /\ batch_max_size \in 1..MaxBatch
    /\ batch_max_wait \in 0..MaxWait
    /\ task = "running"
    /\ channel = <<>>
    /\ ReporterIdle
    /\ PureIdle
    /\ NothingLogged

(* Faulty variant: a block flushes only when the batch is past batch_max_size *)
should_receive_more_past_size(upd, len, elapsed, size, wait) ==
    IF upd.type = "Block" THEN ~(len > size \/ elapsed >= wait) ELSE FALSE

(* Faulty variant: a block flushes only after more than batch_max_wait *)
should_receive_more_strict(upd, len, elapsed, size, wait) ==
    IF upd.type = "Block" THEN ~(len >= size \/ elapsed > wait) ELSE FALSE

(* Faulty variant: a microblock or rollback waits like a block *)
should_receive_more_always_waits(upd, len, elapsed, size, wait) ==
    ~(len >= size \/ elapsed >= wait)

(* run, the match on the pushed update: the value of should_receive_more *)
should_receive_more(upd, len, elapsed, size, wait) ==
    IF upd.type = "Block" THEN ~(len >= size \/ elapsed >= wait) ELSE FALSE

(* Faulty variant: the buffer keeps the batch *)
clear_keeps(buffer) == buffer

(* result.clear() *)
clear(buffer) == <<>>

(* One turn of the loop of run: a message is read, its update is pushed,   *)
(* and the batch is sent when should_receive_more is false                 *)
Receive(msg) ==
    /\ Received(tx) < MaxMessages
    /\ LET upd == msg.update
           pushed == Append(result, upd)
       IN /\ last_height' = msg.height
          /\ IF ~should_receive_more(upd, Len(pushed), now - start,
                                     batch_max_size, batch_max_wait)
             THEN /\ tx' = Append(tx, [last_height |-> msg.height, updates |-> pushed])
                  /\ start' = now
                  /\ result' = clear(pushed)
             ELSE /\ result' = pushed
                  /\ UNCHANGED <<tx, start>>
          /\ stream_events' = Append(stream_events, upd)
    /\ UNCHANGED <<now, batch_max_size, batch_max_wait, daemon_vars, channel_vars,
                   reporter_vars, pure_vars, received_batches>>

(* Time passes while the task waits for the next message *)
Tick ==
    /\ now < MaxTime
    /\ now' = now + 1
    /\ UNCHANGED <<result, last_height, start, tx, batch_max_size, batch_max_wait,
                   daemon_vars, other_vars>>

SourceNext ==
    \/ \E msg \in SubscribeEvents : Receive(msg)
    \/ Tick

SourceSpec == SourceInit /\ [][SourceNext]_vars

----------------------------------------------------------------------------

(* The source task, the channel and the daemon together.  The channel is   *)
(* channel(batch_max_size) of updates.rs stream; the task owns the sender  *)
(* and the daemon the receiver, so each side sees the other one stop.      *)

(* run, the first half of a turn: a message is read and its update pushed; *)
(* the task goes on to send when should_receive_more is false              *)
TaskReceive(msg) ==
    /\ task = "running"
    /\ Received(tx) < MaxMessages
    /\ LET upd == msg.update
           pushed == Append(result, upd)
       IN /\ last_height' = msg.height
          /\ result' = pushed
          /\ task' = IF should_receive_more(upd, Len(pushed), now - start,
                                            batch_max_size, batch_max_wait)
                     THEN "running" ELSE "sending"
          /\ stream_events' = Append(stream_events, upd)
    /\ UNCHANGED <<start, now, tx, batch_max_size, batch_max_wait, channel, daemon_vars,
                   reporter_vars, pure_vars, received_batches>>

(* run, the second half: tx.send(..).await?  The send fails when the       *)
(* daemon has dropped the receiver, and waits while the channel is full    *)
TaskSend ==
    /\ task = "sending"
    /\ IF pc # "running"
       THEN /\ task' = "failed"
            /\ UNCHANGED <<result, start, tx, channel>>
       ELSE /\ Len(channel) < batch_max_size
            /\ channel' = Append(channel, [last_height |-> last_height, updates |-> result])
            /\ tx' = Append(tx, [last_height |-> last_height, updates |-> result])
            /\ start' = now
            /\ result' = clear(result)
            /\ task' = "running"
    /\ UNCHANGED <<last_height, now, batch_max_size, batch_max_wait, daemon_vars,
                   reporter_vars, pure_vars, log_vars>>

(* run: stream.message() gives an error, None (the stream is closed) or a  *)
(* message without an update; run returns the error and the sender is      *)
(* dropped with the task                                                   *)
StreamEnds ==
    /\ task = "running"
    /\ task' = "failed"
    /\ UNCHANGED <<channel, source_vars, daemon_vars, reporter_vars, pure_vars, log_vars>>

(* Faulty variant: the daemon takes the end of the task for the end of the *)
(* channel and leaves the buffered batches                                 *)
recv_forgets_buffer(buffer, sender) ==
    IF sender = "failed" THEN {} ELSE IF buffer # <<>> THEN {Head(buffer)} ELSE {}

(* Faulty variant: the newest buffered batch is taken first *)
recv_newest(buffer, sender) == IF buffer # <<>> THEN {buffer[Len(buffer)]} ELSE {}

(* rx.recv(): the oldest buffered batch; None when the channel is empty    *)
(* and the sender is gone                                                  *)
recv(buffer, sender) == IF buffer # <<>> THEN {Head(buffer)} ELSE {}

(* start, the head of the loop: rx.recv().await.ok_or(StreamClosed)? *)
DaemonRecv ==
    /\ pc = "running"
    /\ rx = <<>>
    /\ LET got == recv(channel, task)
       IN IF got # {}
          THEN /\ rx' = (CHOOSE b \in got : TRUE).updates
               /\ channel' = Tail(channel)
               /\ received_batches' = Append(received_batches, CHOOSE b \in got : TRUE)
               /\ pc' = "running"
               /\ step' = "send"
          ELSE /\ task = "failed"
               /\ pc' = "closed"
               /\ step' = "closed"
               /\ UNCHANGED <<rx, channel, received_batches>>
    /\ UNCHANGED <<blocks, data_entries, data_entries_uid_seq, blocks_uid_seq,
                   starting_from_height, start_rollback_depth, delivered,
                   block_event_uids, assigned_uids, task, source_vars, reporter_vars,
                   pure_vars, stream_events>>

ChannelNext ==
    \/ \E msg \in SubscribeEvents : TaskReceive(msg)
    \/ TaskSend
    \/ StreamEnds
    \/ DaemonRecv
    \/ ProcessBatch
    \/ Tick

ChannelSpec == SourceInit /\ [][ChannelNext]_vars

(* The runtime keeps polling the daemon and the task.  The last conjunct  *)
(* is WF_vars(ProcessBatch) with ENABLED <<ProcessBatch>>_vars written out *)
ChannelFairSpec ==
    /\ ChannelSpec
    /\ WF_vars(DaemonRecv)
    /\ WF_vars(TaskSend)
    /\ ([]<>~(pc = "running" /\ rx # <<>>) \/ []<><<ProcessBatch>>_vars)

----------------------------------------------------------------------------

(* The readiness reporter: readiness.rs channel.  Every POLL_INTERVAL_SECS *)
(* it connects to the store, reads the time_stamp of the last key block    *)
(* and sends a status.  The daemon is stood for by the rows it commits.    *)

POLL_INTERVAL_SECS == 60
MAX_BLOCK_AGE == 300

BlockTimestamps == {1000, 2000}

(* LAST_BLOCK_TIMESTAMP_QUERY: the time_stamp of the row of highest uid    *)
(* among those with a time_stamp                                           *)
last_block_timestamp(rows) ==
    LET ks == {b \in rows : b.time_stamp # {}}
    IN IF ks = {} THEN {}
       ELSE (CHOOSE b \in ks : \A c \in ks : c.uid <= b.uid).time_stamp

ReadinessInit ==
    /\ blocks = {}
    /\ data_entries = {}
    /\ data_entries_uid_seq = 1
    /\ blocks_uid_seq = 1
    /\ pc = "running"
    /\ rx = <<>>
    /\ starting_from_height = 1
    /\ start_rollback_depth = 0
    /\ delivered = 0
    /\ block_event_uids = {}
    /\ assigned_uids = <<>>
    /\ step = "start"
    /\ SourceIdle
    /\ OthersIdle

(* The daemon commits one more record: a key block, or a microblock (no    *)
(* time_stamp)                                                             *)
Commits(id, ts) ==
    /\ \A b \in blocks : b.id # id
    /\ blocks' = blocks \cup {[uid |-> blocks_uid_seq, id |-> id, height |-> HeightOf[id],
                               time_stamp |-> ts]}
    /\ blocks_uid_seq' = blocks_uid_seq + 1
    /\ step' = "commit"
    /\ UNCHANGED <<data_entries, data_entries_uid_seq, pc, rx, starting_from_height,
                   start_rollback_depth, delivered, block_event_uids, assigned_uids,
                   source_vars, other_vars>>

(* Faulty variant: a failed query is reported as Ready *)
status_ready_on_query_error(outcome, found, seen, age) ==
    IF outcome = "connection_error" THEN <<>>
    ELSE IF outcome = "query_error" THEN <<"Ready">>
    ELSE IF found = {} THEN <<"Ready">>
    ELSE IF (CHOOSE t \in found : TRUE) > seen THEN <<"Ready">>
    ELSE IF age > MAX_BLOCK_AGE THEN <<"Dead">>
    ELSE <<"Ready">>

(* The statuses one poll sends: the match on get_conn and on query_result. *)
(* found is the Option the query gives, seen is last_block.timestamp, age  *)
(* is now.duration_since(last_block.last_change)                           *)
status(outcome, found, seen, age) ==
    IF outcome = "connection_error" THEN <<>>
    ELSE IF outcome = "query_error" THEN <<"Dead">>
    ELSE IF found = {} THEN <<"Ready">>
    ELSE IF (CHOOSE t \in found : TRUE) > seen THEN <<"Ready">>
    ELSE IF age > MAX_BLOCK_AGE THEN <<"Dead">>
    ELSE <<"Ready">>

(* One turn of the loop of the reporter: sleep, connect, query, send *)
Poll(outcome) ==
    /\ now < MaxPolls * POLL_INTERVAL_SECS
    /\ now' = now + POLL_INTERVAL_SECS
    /\ poll' = outcome
    /\ LET found == last_block_timestamp(blocks)
       IN /\ readiness_rx' = readiness_rx \o
                status(outcome, found, last_block.timestamp, now' - last_block.last_change)
          /\ last_block' =
                IF outcome = "ok" /\ found # {}
                   /\ (CHOOSE t \in found : TRUE) > last_block.timestamp
                THEN [timestamp |-> CHOOSE t \in found : TRUE, last_change |-> now']
                ELSE last_block
    /\ UNCHANGED <<result, last_height, start, tx, batch_max_size, batch_max_wait,
                   daemon_vars, channel_vars, pure_vars, log_vars>>

ReadinessNext ==
    \/ \E id \in Ids, ts \in {{}} \cup {{t} : t \in BlockTimestamps} : Commits(id, ts)
    \/ \E outcome \in {"connection_error", "query_error", "ok"} : Poll(outcome)

ReadinessSpec == ReadinessInit /\ [][ReadinessNext]_vars

----------------------------------------------------------------------------

(* The decoder: updates.rs, TryFrom<BlockchainUpdated> for BlockchainUpdate. *)
(* A raw message is a BlockchainUpdated of the gRPC stream; every optional *)
(* field of the protobuf message is an Option.                             *)

BASE58 ==
    <<"1", "2", "3", "4", "5", "6", "7", "8", "9", "A", "B", "C", "D", "E", "F", "G",
      "H", "J", "K", "L", "M", "N", "P", "Q", "R", "S", "T", "U", "V", "W", "X", "Y",
      "Z", "a", "b", "c", "d", "e", "f", "g", "h", "i", "j", "k", "m", "n", "o", "p",
      "q", "r", "s", "t", "u", "v", "w", "x", "y", "z">>

(* The bytes read as one big-endian number *)
RECURSIVE bytes_value(_)
bytes_value(bytes) ==
    IF bytes = <<>> THEN 0
    ELSE bytes_value(SubSeq(bytes, 1, Len(bytes) - 1)) * 256 + bytes[Len(bytes)]

RECURSIVE base58_digits(_)
base58_digits(n) ==
    IF n = 0 THEN "" ELSE base58_digits(n \div 58) \o BASE58[(n % 58) + 1]

(* Every leading zero byte is written as the first letter of the alphabet *)
RECURSIVE leading_ones(_)
leading_ones(bytes) ==
    IF bytes # <<>> /\ Head(bytes) = 0 THEN BASE58[1] \o leading_ones(Tail(bytes)) ELSE ""

(* bs58::encode(bytes).into_string() *)
bs58_encode(bytes) == leading_ones(bytes) \o base58_digits(bytes_value(bytes))

ByteStrings == {<<0>>, <<1>>, <<0, 58>>}

(* transaction_ids and transaction_state_updates of an Append *)
RawTransactions ==
    LET e(k, v) == [address |-> "x", key |-> k, value |-> v]
    IN {[transaction_ids |-> <<>>, transaction_state_updates |-> <<>>],
        [transaction_ids |-> <<<<1>>>>,
         transaction_state_updates |-> << <<e("k1", 7)>> >>],
        [transaction_ids |-> <<<<1>>>>,
         transaction_state_updates |-> << <<e("k1", 7), e("k2", 7), e("k1", 8)>> >>],
        [transaction_ids |-> <<<<1>>, <<0, 58>>>>,
         transaction_state_updates |-> << <<e("k1", 7)>>, <<e("k1", 8)>> >>]}

RawBodies ==
    {[type |-> "Block", block |-> b] :
        b \in {{}} \cup {{[header |-> h]} : h \in {{}, {[timestamp |-> 1000]}}}}
    \cup {[type |-> "MicroBlock", micro_block |-> m] :
            m \in {{}} \cup {{[total_block_id |-> i]} : i \in ByteStrings}}

RawUpdates ==
    {[type |-> "Rollback"]}
    \cup {[type |-> "Append", body |-> b, transaction_ids |-> t.transaction_ids,
           transaction_state_updates |-> t.transaction_state_updates] :
            b \in {{}} \cup {{x} : x \in RawBodies}, t \in RawTransactions}

BlockchainUpdated ==
    {[id |-> i, height |-> h, update |-> u] :
        i \in ByteStrings, h \in 1..MaxHeight, u \in {{}} \cup {{x} : x \in RawUpdates}}

(* try_from: Ok(Block), Ok(Microblock), Ok(Rollback), Err(InvalidMessage), *)
(* or a panic where the code unwraps a None                                *)
try_from(v) ==
    IF v.update = {} THEN [type |-> "InvalidMessage"]
    ELSE LET update == CHOOSE u \in v.update : TRUE
         IN IF update.type = "Rollback"
            THEN [type |-> "Rollback", id |-> bs58_encode(v.id)]
            ELSE IF update.body = {} THEN [type |-> "InvalidMessage"]
            ELSE LET body == CHOOSE b \in update.body : TRUE
                 IN IF body.type = "Block"
                    THEN [type |-> "Block", id |-> bs58_encode(v.id),
                          time_stamp |->
                              IF body.block = {} THEN {}
                              ELSE LET header == (CHOOSE b \in body.block : TRUE).header
                                   IN IF header = {} THEN {}
                                      ELSE {(CHOOSE h \in header : TRUE).timestamp},
                          height |-> v.height, data_entries |-> <<>>]
                    ELSE IF body.micro_block = {} THEN [type |-> "panic"]
                    ELSE [type |-> "Microblock",
                          id |-> bs58_encode(
                                    (CHOOSE m \in body.micro_block : TRUE).total_block_id),
                          time_stamp |-> {}, height |-> v.height, data_entries |-> <<>>]

DecoderInit ==
    /\ blocks = {}
    /\ data_entries = {}
    /\ data_entries_uid_seq = 1
    /\ blocks_uid_seq = 1
    /\ pc = "running"
    /\ rx = <<>>
    /\ starting_from_height = 1
    /\ start_rollback_depth = 0
    /\ delivered = 0
    /\ block_event_uids = {}
    /\ assigned_uids = <<>>
    /\ step = "start"
    /\ SourceIdle
    /\ OthersIdle

(* run: BlockchainUpdate::try_from(update) on the message just read *)
Decode(v) ==
    /\ value' = {v}
    /\ decoded' = {try_from(v)}
    /\ UNCHANGED <<daemon_vars, source_vars, channel_vars, reporter_vars, fragment_vars,
                   log_vars>>

DecoderNext == \E v \in BlockchainUpdated : Decode(v)

DecoderSpec == DecoderInit /\ [][DecoderNext]_vars

----------------------------------------------------------------------------

(* Fragments: daemon.rs split_to_fragments, extract_string_fragment and    *)
(* extract_integer_fragment.  A string is the sequence of its characters.  *)

FRAGMENT_SEPARATOR == <<"_", "_">>
STRING_DESCRIPTOR == <<"s">>
INTEGER_DESCRIPTOR == <<"d">>

Decimal == <<"0", "1", "2", "3", "4", "5", "6", "7", "8", "9">>

(* str::split: the pieces between the leftmost, non-overlapping matches *)
RECURSIVE split(_, _)
split(s, sep) ==
    LET at == {i \in 1..(Len(s) - Len(sep) + 1) : SubSeq(s, i, i + Len(sep) - 1) = sep}
    IN IF at = {} THEN <<s>>
       ELSE LET i == Min(at)
            IN <<SubSeq(s, 1, i - 1)>> \o split(SubSeq(s, i + Len(sep), Len(s)), sep)

(* Iterator::zip: as long as the shorter of the two *)
zip(a, b) == [i \in 1..Min({Len(a), Len(b)}) |-> <<a[i], b[i]>>]

split_to_fragments(v) ==
    LET frs == split(v, FRAGMENT_SEPARATOR)
        types == Tail(split(Head(frs), <<"%">>))
    IN zip(types, Tail(frs))

(* The value of a run of decimal digits, None when it is not one or when   *)
(* it does not fit                                                         *)
RECURSIVE digits_value(_)
digits_value(s) ==
    IF s = <<>> THEN 0
    ELSE digits_value(SubSeq(s, 1, Len(s) - 1)) * 10
            + (CHOOSE d \in 0..9 : Decimal[d + 1] = s[Len(s)])

(* str::parse::<i64>: an optional sign, then at least one digit *)
parse(s) ==
    LET signed == s # <<>> /\ Head(s) \in {"+", "-"}
        digits == IF signed THEN Tail(s) ELSE s
    IN IF digits = <<>> \/ \E i \in 1..Len(digits) : \A d \in 1..10 : Decimal[d] # digits[i]
       THEN {}
       ELSE LET n == digits_value(digits)
            IN IF signed /\ Head(s) = "-"
               THEN IF n - 1 <= I64_MAX THEN {0 - n} ELSE {}
               ELSE IF n <= I64_MAX THEN {n} ELSE {}

extract_string_fragment(values, position) ==
    IF position + 1 > Len(values) THEN {}
    ELSE IF values[position + 1][1] = STRING_DESCRIPTOR THEN {values[position + 1][2]}
    ELSE {}

extract_integer_fragment(values, position) ==
    IF position + 1 > Len(values) THEN {}
    ELSE IF values[position + 1][1] = INTEGER_DESCRIPTOR THEN parse(values[position + 1][2])
    ELSE {}

(* append_data_entries: the columns fragment_0 .. fragment_10 of a key *)
fragment_columns(v) ==
    LET key_fragments == split_to_fragments(v)
    IN [position \in 0..10 |->
           [integer |-> extract_integer_fragment(key_fragments, position),
            string |-> extract_string_fragment(key_fragments, position)]]

(* i64 to_string *)
RECURSIVE to_string(_)
to_string(n) ==
    IF n < 0 THEN <<"-">> \o to_string(0 - n)
    ELSE IF n < 10 THEN <<Decimal[n + 1]>>
    ELSE to_string(n \div 10) \o <<Decimal[(n % 10) + 1]>>

(* The pieces joined with the separator *)
RECURSIVE join(_, _)
join(pieces, sep) ==
    IF pieces = <<>> THEN <<>>
    ELSE IF Len(pieces) = 1 THEN pieces[1]
    ELSE pieces[1] \o sep \o join(Tail(pieces), sep)

(* The typed fragments a key is built from: a string or an integer *)
TypedFragments ==
    [type : {"string"}, string : {<<>>, <<"a">>, <<"4">>}, integer : {0}]
    \cup [type : {"integer"}, string : {<<>>}, integer : {4, 42}]

FragmentLists == UNION {[1..n -> TypedFragments] : n \in 0..MaxFragments}

FragmentText(f) == IF f.type = "string" THEN f.string ELSE to_string(f.integer)

(* The keys of the chain this code reads: every descriptor follows a '%' *)
PrefixedKey(frs) ==
    join(<<join([i \in 1..Len(frs) |->
                    <<"%">> \o (IF frs[i].type = "string" THEN STRING_DESCRIPTOR
                                ELSE INTEGER_DESCRIPTOR)], <<>>)>>
         \o [i \in 1..Len(frs) |-> FragmentText(frs[i])], FRAGMENT_SEPARATOR)

(* The descriptors of the other convention: '$' or 's' for a string, '#'   *)
(* or 'd' for an integer, separated by '%'                                 *)
Descriptors(f) == IF f.type = "string" THEN {<<"$">>, <<"s">>} ELSE {<<"#">>, <<"d">>}

SeparatedKeys(frs) ==
    {join(<<join(ds, <<"%">>)>> \o [i \in 1..Len(frs) |-> FragmentText(frs[i])],
          FRAGMENT_SEPARATOR) :
        ds \in {d \in [1..Len(frs) -> {<<"$">>, <<"s">>, <<"#">>, <<"d">>}] :
                   \A i \in 1..Len(frs) : d[i] \in Descriptors(frs[i])}}

KeyChars == {"%", "s", "d", "#", "_", "4", "a"}

RawKeys == UNION {[1..n -> KeyChars] : n \in 0..MaxKeyLen}

(* The keys given to append_data_entries: built from typed fragments in    *)
(* either convention, or any short string                                  *)
FragmentInputs ==
    {[key |-> PrefixedKey(frs), fragments |-> {frs}] : frs \in FragmentLists}
    \cup UNION {{[key |-> k, fragments |-> {frs}] : k \in SeparatedKeys(frs)} :
                  frs \in FragmentLists}
    \cup {[key |-> k, fragments |-> {}] : k \in RawKeys}

FragmentInit ==
    /\ blocks = {}
    /\ data_entries = {}
    /\ data_entries_uid_seq = 1
    /\ blocks_uid_seq = 1
    /\ pc = "running"
    /\ rx = <<>>
    /\ starting_from_height = 1
    /\ start_rollback_depth = 0
    /\ delivered = 0
    /\ block_event_uids = {}
    /\ assigned_uids = <<>>
    /\ step = "start"
    /\ SourceIdle
    /\ task = "idle"
    /\ channel = <<>>
    /\ ReporterIdle
    /\ value = {}
    /\ decoded = {}
    /\ \E input \in FragmentInputs :
          /\ entry_key = input.key
          /\ fragments = input.fragments
    /\ columns = {}
    /\ NothingLogged

(* append_data_entries computes the fragment columns of the key *)
Split ==
    /\ columns = {}
    /\ columns' = {fragment_columns(entry_key)}
    /\ UNCHANGED <<entry_key, fragments, daemon_vars, source_vars, channel_vars,
                   reporter_vars, decoder_vars, log_vars>>

FragmentNext == Split

FragmentSpec == FragmentInit /\ [][FragmentNext]_vars

----------------------------------------------------------------------------

(* The daemon on one batch of any shape: start takes any DataEntriesSource, *)
(* so a batch can hold Block, Microblock and Rollback events in any order.  *)
AnyIds == Ids \cup {"D"}
AnyHeightOf(i) == IF i = "D" THEN 2 ELSE HeightOf[i]

AnyUpdates ==
    {[type |-> "Block", id |-> i, time_stamp |-> v[1], height |-> AnyHeightOf(i),
      data_entries |-> v[2]] :
        i \in {"A", "C", "D"},
        v \in {<<{1000}, <<>>>>,
               <<{1000}, <<[address |-> "x", key |-> "k1", value |-> 7]>>>>,
               <<{}, <<>>>>}}
    \cup {[type |-> "Microblock", id |-> "B", time_stamp |-> {}, height |-> 1,
           data_entries |-> <<>>]}
    \cup {[type |-> "Rollback", id |-> i] : i \in {"A", "C"}}

AnyBatches == UNION {[1..n -> AnyUpdates] : n \in 1..MaxAnyBatch}

AnyBatchInit ==
    /\ blocks = {}
    /\ data_entries = {}
    /\ data_entries_uid_seq = 1
    /\ blocks_uid_seq = 1
    /\ pc = "running"
    /\ rx \in AnyBatches
    /\ starting_from_height = 1
    /\ start_rollback_depth = 0
    /\ delivered = 0
    /\ block_event_uids = {}
    /\ assigned_uids = <<>>
    /\ step = "send"
    /\ SourceIdle
    /\ OthersIdle

AnyBatchSpec == AnyBatchInit /\ [][ProcessBatch]_vars

----------------------------------------------------------------------------

(* Rows of one (address, key) history *)
SameKey(r, q) == r.address = q.address /\ r.key = q.key

(* C1: after every committed transaction, every (address, key) that has a *)
(* row in data_entries has exactly one row with superseded_by = MAX_UID.   *)
ExactlyOneCurrent ==
    \A r \in data_entries :
        Cardinality({q \in data_entries : SameKey(q, r) /\ q.superseded_by = MAX_UID}) = 1

(* A batch committed that left a closed row and its current successor *)
ExactlyOneCurrentWitness ==
    /\ step = "commit"
    /\ \E r \in data_entries : \E q \in data_entries :
          SameKey(r, q) /\ r.superseded_by = q.uid /\ q.superseded_by = MAX_UID

(* C2: after every committed transaction, a row that is not current has   *)
(* superseded_by equal to the uid of a row of the same (address, key), and *)
(* that row is its immediate successor: the smallest uid above its own.    *)
SupersededByImmediateSuccessor ==
    \A r \in data_entries :
        r.superseded_by # MAX_UID =>
            \E q \in data_entries :
                /\ SameKey(q, r)
                /\ q.uid = r.superseded_by
                /\ q.uid > r.uid
                /\ \A m \in data_entries :
                      SameKey(m, r) => ~(r.uid < m.uid /\ m.uid < q.uid)

(* A startup rollback deleted entries and a closed row with its successor *)
(* is still there                                                          *)
SupersededByImmediateSuccessorWitness ==
    /\ step = "start"
    /\ \E r \in data_entries : r.superseded_by # MAX_UID
    /\ \A r \in data_entries : r.uid + 1 < data_entries_uid_seq

(* C3: rollback is a left-inverse of append.  From a store reached by      *)
(* appending blocks up to height H, a batch that appends blocks of heights *)
(* above H and then rolls back to the block at height H (the last record   *)
(* of the store) leaves the block records and the data entries as they     *)
(* were.                                                                   *)
TopBlock == CHOOSE b \in blocks : \A c \in blocks : c.uid <= b.uid

AppendsThenRollsBackToTop(batch) ==
    /\ Len(batch) >= 2
    /\ blocks # {}
    /\ \A b \in blocks : b.uid \in block_event_uids /\ b.height <= TopBlock.height
    /\ \A i \in 1..(Len(batch) - 1) :
          batch[i].type = "Block" /\ batch[i].height > TopBlock.height
    /\ batch[Len(batch)].type = "Rollback"
    /\ batch[Len(batch)].id = TopBlock.id

RollbackLeftInverse ==
    [][(step' = "commit" /\ AppendsThenRollsBackToTop(rx))
          => (blocks' = blocks /\ data_entries' = data_entries)]_vars

(* C4: after the startup transaction no record of the store is at or above *)
(* the height the daemon subscribes from, so the stream sends no block     *)
(* that is still in the store.                                             *)
StartupLeavesNothingToResend ==
    step = "start" => \A b \in blocks : b.height < starting_from_height

(* C5: the startup transaction rolls back to the lowest-uid record at      *)
(* height max(height) - start_rollback_depth and subscribes from that      *)
(* height + 1; with no such record it subscribes from height 1 and changes *)
(* nothing.                                                                *)
HandledCandidates(depth) ==
    IF blocks = {} THEN {}
    ELSE {b \in blocks :
            b.height = Max({c.height : c \in blocks}) - depth}

StartupRollsBackToHandledHeight ==
    [][step' = "start" =>
        LET cands == HandledCandidates(start_rollback_depth')
        IN IF cands # {}
           THEN \E t \in cands :
                   /\ \A c \in cands : t.uid <= c.uid
                   /\ blocks' = {b \in blocks : b.uid <= t.uid}
                   /\ {r.uid : r \in data_entries'} =
                         {r.uid : r \in {q \in data_entries : q.block_uid <= t.uid}}
                   /\ starting_from_height' = t.height + 1
           ELSE /\ starting_from_height' = 1
                /\ blocks' = blocks
                /\ data_entries' = data_entries]_vars

(* A startup that rolled back records and entries above a record that     *)
(* shares its height with a later one                                      *)
StartupRollsBackWitness ==
    /\ step = "start"
    /\ blocks # {}
    /\ starting_from_height = Max({b.height : b \in blocks}) + 1
    /\ \A b \in blocks : b.uid + 1 < blocks_uid_seq
    /\ \A r \in data_entries : r.uid + 1 < data_entries_uid_seq

RECURSIVE one_at_a_time(_, _)
one_at_a_time(db, updates) ==
    IF updates = <<>> THEN db
    ELSE one_at_a_time(handle_items(db, UpdatesItems(<<Head(updates)>>), 1),
                       Tail(updates))

BatchingPreservesState ==
    [][step' = "commit" =>
          LET o == one_at_a_time(Store, rx)
          IN o.ok /\ blocks' = o.blocks /\ data_entries' = o.entries]_vars

(* C8: after every committed transaction no record with a time_stamp has a *)
(* uid above the uid of a record without one.                              *)
MicroblocksContiguousTail ==
    \A m \in blocks : \A k \in blocks :
        (m.time_stamp = {} /\ k.time_stamp # {}) => k.uid < m.uid

(* C9: when a Blocks item is processed while records of Microblock events  *)
(* exist, then after its squash and before the insert no record without    *)
(* time_stamp remains, every data entry that was attached to a microblock  *)
(* is attached to the most recent key block, and that key block carries    *)
(* the id of the highest-uid microblock.  A squash that fails (no key      *)
(* block) aborts the batch, so no block is inserted after it.              *)
Microblocks(db) == {b \in db.blocks : b.time_stamp = {} /\ b.uid \notin db.from_block}

SquashedBeforeInsert(pre) ==
    LET micro == Microblocks(pre)
        post == squash_microblocks(pre)
        keys == {b \in pre.blocks : b.time_stamp # {}}
    IN (micro # {} /\ pre.ok /\ post.ok) =>
          /\ \A b \in post.blocks : b.time_stamp # {}
          /\ \E key \in keys :
                /\ \A c \in keys : c.uid <= key.uid
                /\ \A r \in pre.entries :
                      (\E m \in micro : m.uid = r.block_uid) =>
                          \E q \in post.entries : q.uid = r.uid /\ q.block_uid = key.uid
                /\ \E k \in post.blocks : \E m \in micro :
                      /\ k.uid = key.uid
                      /\ \A c \in micro : c.uid <= m.uid
                      /\ k.id = m.id

SquashNoOpWithoutMicroblocks ==
    LET once == squash_microblocks(Store)
    IN /\ (\A b \in blocks : b.time_stamp # {}) => once = Store
       /\ squash_microblocks(once) = once

(* Two Blocks items were processed on a store without microblocks *)
SquashNoOpWitness ==
    /\ step = "commit"
    /\ Cardinality(blocks) >= 2
    /\ \A b \in blocks : b.time_stamp # {}
    /\ \E b \in blocks : \E c \in blocks : c.uid > b.uid + 1

----------------------------------------------------------------------------
(* The uids of the data entries of the store *)
Uids == {r.uid : r \in data_entries}

(* C11, as claimed: after every committed transaction the next value of    *)
(* the uid sequence is max(uid) + 1 over the data entries of the store.    *)
SequenceIsMaxUidPlusOne ==
    (step \in {"start", "commit"} /\ data_entries # {})
        => data_entries_uid_seq = Max(Uids) + 1

(* C11, amended: after every transaction the next value of the uid         *)
(* sequence is above every uid of the store, and a committed batch without *)
(* a Rollback that inserted data entries leaves it at max(uid) + 1; a      *)
(* rollback deletes entries and keeps the sequence, so after it the next   *)
(* value can be above max(uid) + 1.                                        *)
SequenceAboveEveryUid ==
    [][/\ \A r \in data_entries' : r.uid < data_entries_uid_seq'
       /\ (/\ step' = "commit"
           /\ \A i \in 1..Len(rx) : rx[i].type # "Rollback"
           /\ \E r \in data_entries' : r.uid \notin Uids)
             => data_entries_uid_seq' = Max({r.uid : r \in data_entries'}) + 1]_vars

(* A committed rollback deleted the highest entries and left a lower one *)
SequenceAboveEveryUidWitness ==
    /\ step = "commit"
    /\ data_entries # {}
    /\ data_entries_uid_seq > Max(Uids) + 1

(* C12: a rollback never rewinds the uid sequence: get_next_update_uid     *)
(* gives after the rollback, at startup or as an item of a batch, what it  *)
(* gave before it, also when the highest-uid entries were deleted.         *)
RollbackKeepsSequence ==
    [][/\ step' = "start" => data_entries_uid_seq' = data_entries_uid_seq
       /\ step' \in {"commit", "abort"} =>
             LET items == UpdatesItems(rx)
             IN \A i \in 1..Len(items) :
                   items[i].type = "Rollback" =>
                       LET pre == handle_items(Store, items, i - 1)
                           post == handle_items(Store, items, i)
                       IN (pre.ok /\ post.ok) =>
                             get_next_update_uid(post) = get_next_update_uid(pre)]_vars

(* Three entries were appended and a committed rollback deleted the third: *)
(* the next uid is still 4                                                 *)
RollbackKeepsSequenceWitness ==
    /\ step = "commit"
    /\ Uids = {1, 2}
    /\ data_entries_uid_seq = 4
    /\ Cardinality(blocks) = 2
    /\ \E r \in data_entries : r.uid = 1 /\ r.superseded_by = MAX_UID

(* C13, as claimed: after every committed transaction the uids of the data *)
(* entries are distinct and have no gap between the lowest and the highest *)
(* uid present.                                                            *)
UidsContiguous ==
    (step \in {"start", "commit"} /\ data_entries # {}) =>
        /\ \A r \in data_entries : \A q \in data_entries : r.uid = q.uid => r = q
        /\ Uids = Min(Uids)..Max(Uids)

(* C13, amended: the uids of the data entries are distinct and each is a   *)
(* value the sequence has handed out (from 1 up to below the next value);  *)
(* they need not be contiguous, a rollback followed by an append leaves a  *)
(* gap at the deleted uids.                                                *)
UidsDistinctAndHandedOut ==
    /\ \A r \in data_entries : \A q \in data_entries : r.uid = q.uid => r = q
    /\ \A r \in data_entries : 1 <= r.uid /\ r.uid < data_entries_uid_seq

(* An append after a rollback: uid 2 was deleted and uid 3 assigned *)
UidsDistinctAndHandedOutWitness ==
    /\ step = "commit"
    /\ Uids = {1, 3}
    /\ data_entries_uid_seq = 4

(* C14: data-entry uids strictly increase with insertion order over the    *)
(* whole history: every entry an append inserts gets a uid above every uid *)
(* an earlier append assigned, also when the earlier entries were deleted  *)
(* by a rollback or the daemon was restarted in between.                   *)
UidsNeverReused ==
    \A i \in 1..Len(assigned_uids) : \A j \in 1..Len(assigned_uids) :
        i < j => assigned_uids[i] < assigned_uids[j]

(* An append committed after a rollback had deleted an earlier entry *)
UidsNeverReusedWitness ==
    /\ step = "commit"
    /\ Len(assigned_uids) >= 2
    /\ assigned_uids[Len(assigned_uids)] \in Uids
    /\ \E i \in 1..(Len(assigned_uids) - 1) : assigned_uids[i] \notin Uids

----------------------------------------------------------------------------
(* The source task took a turn of its loop: it read a message *)
ReadMessage == <<tx, result>>' # <<tx, result>>

(* The batch that turn flushed *)
Flushed == tx' # tx

(* C15: after a Block event is appended to the pending batch, the batch is *)
(* sent if and only if its length is at least batch_max_size or the time   *)
(* since the batch start is at least batch_max_wait; otherwise the event   *)
(* stays pending and nothing is sent.                                      *)
BlockFlushesOnSizeOrWait ==
    [][ReadMessage =>
          \A upd \in SourceUpdates :
              (upd.type = "Block" /\
               (IF Flushed THEN tx'[Len(tx')].updates ELSE result') = Append(result, upd))
              => /\ Flushed <=> \/ Len(result) + 1 >= batch_max_size
                                \/ now - start >= batch_max_wait
                 /\ Flushed => tx' = Append(tx, [last_height |-> upd.height,
                                                 updates |-> Append(result, upd)])
                 /\ ~Flushed => (result' = Append(result, upd) /\ tx' = tx)]_vars

(* A block was flushed alone because batch_max_wait had elapsed, and the   *)
(* next block stays pending                                                *)
BlockFlushesOnSizeOrWaitWitness ==
    /\ batch_max_size = 2
    /\ batch_max_wait = 1
    /\ Len(tx) = 1
    /\ Len(tx[1].updates) = 1
    /\ tx[1].updates[1].type = "Block"
    /\ Len(result) = 1
    /\ now - start < batch_max_wait

(* C16: every Microblock or Rollback event is appended to the pending      *)
(* batch and that batch is sent in the same turn of the loop, before the   *)
(* next message is read; so a Microblock or Rollback is always the last    *)
(* event of the batch that carries it and never stays pending.             *)
MicroblockAndRollbackFlushAtOnce ==
    [][/\ ReadMessage =>
            \A upd \in SourceUpdates :
                (upd.type # "Block" /\
                 (IF Flushed THEN tx'[Len(tx')].updates ELSE result') = Append(result, upd))
                => /\ Flushed
                   /\ Len(tx') = Len(tx) + 1
                   /\ SubSeq(tx', 1, Len(tx)) = tx
                   /\ tx'[Len(tx')].updates = Append(result, upd)
                   /\ result' = <<>>
       /\ \A i \in 1..Len(tx') : \A j \in 1..(Len(tx'[i].updates) - 1) :
             tx'[i].updates[j].type = "Block"
       /\ \A j \in 1..Len(result') : result'[j].type = "Block"]_vars

(* A microblock closed a batch that held a pending block, and a rollback   *)
(* was sent alone                                                          *)
MicroblockAndRollbackFlushAtOnceWitness ==
    /\ Len(tx) = 2
    /\ Len(tx[1].updates) = 2
    /\ tx[1].updates[1].type = "Block"
    /\ tx[1].updates[2].type = "Microblock"
    /\ Len(tx[2].updates) = 1
    /\ tx[2].updates[1].type = "Rollback"
    /\ result = <<>>

(* C17: a batch that is sent carries as last_height the height of the last *)
(* message read, which for a block or microblock is the height of the last *)
(* event of the batch; it holds the pending events and the new one, the    *)
(* batches sent before stay as they were, and after the send the pending   *)
(* buffer is empty and the batch start is reset to now: no event goes into *)
(* two batches.                                                            *)
FlushCarriesLastHeightAndClears ==
    [][Flushed =>
          LET sent == tx'[Len(tx')]
              last == sent.updates[Len(sent.updates)]
          IN /\ Len(tx') = Len(tx) + 1
             /\ SubSeq(tx', 1, Len(tx)) = tx
             /\ Len(sent.updates) = Len(result) + 1
             /\ SubSeq(sent.updates, 1, Len(result)) = result
             /\ sent.last_height = last_height'
             /\ last.type # "Rollback" => sent.last_height = last.height
             /\ result' = <<>>
             /\ start' = now]_vars

(* Two blocks of heights 1 and 2 were sent as one batch after time passed *)
FlushCarriesLastHeightAndClearsWitness ==
    /\ Len(tx) = 1
    /\ Len(tx[1].updates) = 2
    /\ tx[1].updates[1].height = 1
    /\ tx[1].updates[2].type = "Block"
    /\ tx[1].updates[2].height = 2
    /\ tx[1].last_height = 2
    /\ result = <<>>
    /\ start = now
    /\ now > 0

(* C18: batch waiting has a wall-clock cap: a non-empty pending batch is   *)
(* never older than batch_max_wait, it is sent once batch_max_wait has     *)
(* elapsed since the batch start whether or not a further message arrives. *)
PendingBatchWithinMaxWait ==
    result # <<>> => now - start <= batch_max_wait


----------------------------------------------------------------------------
(* The events an item stands for, in order *)
ItemEvents(item) ==
    IF item.type = "Blocks" THEN item.blocks
    ELSE IF item.type = "Microblock" THEN <<item.mba>>
    ELSE <<[type |-> "Rollback", id |-> item.sig]>>

RECURSIVE FlattenItems(_)
FlattenItems(items) ==
    IF items = <<>> THEN <<>>
    ELSE ItemEvents(Head(items)) \o FlattenItems(Tail(items))

Coalesced(updates, items) ==
    /\ FlattenItems(items) = updates
    /\ \A i \in 1..Len(items) :
          /\ items[i].type \in {"Blocks", "Microblock", "Rollback"}
          /\ items[i].type = "Blocks" =>
                /\ items[i].blocks # <<>>
                /\ \A j \in 1..Len(items[i].blocks) : items[i].blocks[j].type = "Block"
          /\ items[i].type = "Microblock" => items[i].mba.type = "Microblock"
    /\ \A i \in 1..(Len(items) - 1) :
          ~(items[i].type = "Blocks" /\ items[i + 1].type = "Blocks")

(* C19: before a batch is processed its events are coalesced in order:     *)
(* every maximal run of consecutive Block events becomes one Blocks item   *)
(* (so no two Blocks items are adjacent and none is empty), and every      *)
(* Microblock and every Rollback event is an item of its own.              *)
BatchIsCoalesced ==
    [][(rx # <<>> /\ step' \in {"commit", "abort"})
          => Coalesced(rx, UpdatesItems(rx))]_vars

(* The batch Block A, Block C, Microblock B, Block D was processed as      *)
(* three items: the microblock was squashed into C before D was inserted   *)
BatchIsCoalescedWitness ==
    /\ step = "commit"
    /\ {<<b.uid, b.id>> : b \in blocks} = {<<1, "A">>, <<2, "B">>, <<4, "D">>}
    /\ \A b \in blocks : b.time_stamp # {}


----------------------------------------------------------------------------
(* A state up to the choice of uids: every uid is replaced by its rank     *)
BlockRank(bs, uid) == Cardinality({b \in bs : b.uid <= uid})

EntryRank(es, uid) == Cardinality({r \in es : r.uid <= uid})

UpToUids(bs, es) ==
    [blocks  |-> {[rank |-> BlockRank(bs, b.uid), id |-> b.id, height |-> b.height,
                   time_stamp |-> b.time_stamp] : b \in bs},
     entries |-> {[rank |-> EntryRank(es, r.uid), address |-> r.address,
                   key |-> r.key, value |-> r.value,
                   block |-> BlockRank(bs, r.block_uid),
                   superseded_by |-> IF r.superseded_by = MAX_UID THEN MAX_UID
                                     ELSE EntryRank(es, r.superseded_by)] :
                  r \in es}]

(* blocks of distinct ids, a Rollback at position i to the block at        *)
(* position j < i, then further blocks                                     *)
InterleavedRollback(batch, i, j) ==
    /\ 1 <= j /\ j < i /\ i < Len(batch)
    /\ batch[i].type = "Rollback"
    /\ \A n \in (1..Len(batch)) \ {i} : batch[n].type = "Block"
    /\ \A m, n \in 1..(i - 1) : batch[m].id = batch[n].id => m = n
    /\ batch[j].id = batch[i].id

(* The same batch without the Rollback and the blocks it rolls back *)
NeverAppended(batch, i, j) == SubSeq(batch, 1, j) \o SubSeq(batch, i + 1, Len(batch))

(* C20: a batch of blocks, a Rollback to a block appended earlier in the   *)
(* same batch, and further blocks is processed in one transaction and      *)
(* leaves the state (up to uids) of the history in which the rolled-back   *)
(* blocks were never appended.                                             *)
InterleavedRollbackAsNeverAppended ==
    [][\A i \in 1..Len(rx), j \in 1..Len(rx) :
          (InterleavedRollback(rx, i, j) /\ step' \in {"commit", "abort"}) =>
             LET items == UpdatesItems(NeverAppended(rx, i, j))
                 o == handle_items(Store, items, Len(items))
             IN o.ok => /\ step' = "commit"
                        /\ UpToUids(blocks', data_entries') = UpToUids(o.blocks, o.entries)]_vars


----------------------------------------------------------------------------
(* The batch holds a Rollback whose id matches no record when the daemon   *)
(* comes to it                                                             *)
RollbackToUnknownId(db, batch) ==
    LET items == UpdatesItems(batch)
    IN \E n \in 1..Len(items) :
          /\ items[n].type = "Rollback"
          /\ LET pre == handle_items(db, items, n - 1)
             IN pre.ok /\ get_block_uid(pre, items[n].sig) = {}

(* C21: a Rollback event whose id matches no record of blocks_microblocks  *)
(* makes the batch fail: no record is deleted or changed, the batch is     *)
(* aborted and the daemon terminates with an error.                        *)
UnknownRollbackAbortsBatch ==
    [][(RollbackToUnknownId(Store, rx) /\ step' \in {"commit", "abort"}) =>
          /\ step' = "abort"
          /\ pc' = "failed"
          /\ blocks' = blocks
          /\ data_entries' = data_entries]_vars

(* One key block is stored and the next batch, a Rollback to another id,   *)
(* was aborted without inserting anything                                  *)
UnknownRollbackAbortsBatchWitness ==
    /\ step = "abort"
    /\ pc = "failed"
    /\ blocks_uid_seq = 2
    /\ {b.uid : b \in blocks} = {1}
    /\ \A b \in blocks : b.time_stamp # {}


----------------------------------------------------------------------------
(* The store the daemon starts from in ChannelSpec *)
EmptyStore ==
    [blocks |-> {}, entries |-> {}, seq |-> 1, bseq |-> 1, ok |-> TRUE,
     from_block |-> {}, assigned |-> <<>>]

(* The first n batches applied in order, one transaction each *)
RECURSIVE handle_batches(_, _, _)
handle_batches(db, batches, n) ==
    IF n = 0 THEN db
    ELSE LET items == UpdatesItems(batches[n].updates)
         IN handle_items(handle_batches(db, batches, n - 1), items, Len(items))

Sent == handle_batches(EmptyStore, tx, Len(tx))

SentCommitted ==
    /\ Sent.ok
    /\ blocks = Sent.blocks
    /\ data_entries = Sent.entries

(* C22: once the upstream stream has ended (closed, or an empty message)   *)
(* the source task has failed and sends no further batch; the daemon then  *)
(* eventually sees the closed channel and terminates with StreamClosed,    *)
(* and at that point it has committed every batch that was sent; it stops *)
(* with another error only when the store refuses one of the sent batches. *)
(* Once the daemon has stopped, the next send of the source task fails and *)
(* the task terminates.                                                    *)
StreamEndStopsTaskAndDaemon ==
    /\ [][task = "failed" =>
            /\ task' = "failed"
            /\ tx' = tx
            /\ Len(channel') <= Len(channel)]_vars
    /\ [](pc = "closed" =>
            /\ task = "failed"
            /\ channel = <<>>
            /\ rx = <<>>
            /\ SentCommitted)
    /\ [](pc = "failed" => ~Sent.ok)
    /\ (task = "failed") ~> (pc \in {"closed", "failed"})
    /\ [][(task = "sending" /\ pc # "running" /\ task' # task) =>
            /\ task' = "failed"
            /\ tx' = tx
            /\ channel' = channel]_vars
    /\ (task = "sending" /\ pc # "running") ~> (task = "failed")

(* The daemon committed two batches and then found the channel closed *)
StreamEndStopsTaskAndDaemonWitness ==
    /\ pc = "closed"
    /\ step = "closed"
    /\ task = "failed"
    /\ Len(tx) = 2
    /\ Cardinality(blocks) = 2


----------------------------------------------------------------------------
(* A step of the reporter, and the statuses it sent *)
Polled == now' # now

Emitted == SubSeq(readiness_rx', Len(readiness_rx) + 1, Len(readiness_rx'))

(* C23: on a poll whose query succeeds, a last-block timestamp greater     *)
(* than last_seen_timestamp is recorded with the instant of the poll and   *)
(* Ready is sent; on every other successful poll both fields stay and the  *)
(* status is Dead when the time since last_change_instant exceeds          *)
(* MAX_BLOCK_AGE, and Ready otherwise.                                     *)
ReadinessRule ==
    [][(Polled /\ poll' = "ok") =>
          LET found == last_block_timestamp(blocks)
          IN IF found # {} /\ (CHOOSE t \in found : TRUE) > last_block.timestamp
             THEN /\ last_block' = [timestamp |-> CHOOSE t \in found : TRUE,
                                    last_change |-> now']
                  /\ Emitted = <<"Ready">>
             ELSE /\ last_block' = last_block
                  /\ Emitted = <<IF now' - last_block.last_change > MAX_BLOCK_AGE
                                 THEN "Dead" ELSE "Ready">>]_vars

(* C24: a poll whose query fails sends Dead and leaves last_seen_timestamp *)
(* and last_change_instant as they were.                                   *)
QueryErrorIsDead ==
    [][(Polled /\ poll' = "query_error") =>
          /\ Emitted = <<"Dead">>
          /\ last_block' = last_block]_vars

(* A key block had been seen, then a poll's query failed *)
QueryErrorIsDeadWitness ==
    /\ poll = "query_error"
    /\ readiness_rx # <<>>
    /\ readiness_rx[Len(readiness_rx)] = "Dead"
    /\ last_block.timestamp = 1000
    /\ now - last_block.last_change <= MAX_BLOCK_AGE

(* C25: a poll that cannot connect to the database sends Dead, so every    *)
(* poll sends exactly one status.                                          *)
EveryPollSendsOneStatus ==
    [][Polled =>
          /\ Len(Emitted) = 1
          /\ poll' = "connection_error" => Emitted = <<"Dead">>]_vars


----------------------------------------------------------------------------
(* A complete body: a Block with its header, a MicroBlock with its         *)
(* micro_block                                                             *)
CompleteBody(body) ==
    IF body.type = "Block"
    THEN body.block # {} /\ \A b \in body.block : b.header # {}
    ELSE body.micro_block # {}

(* C26: the decoder gives every raw message exactly one outcome and never  *)
(* crashes: a Block body gives Block with the base58 of the message id and *)
(* the header timestamp, a MicroBlock body gives Microblock with the       *)
(* base58 of total_block_id and no time_stamp, Rollback gives Rollback of  *)
(* the base58 of the message id, and every other shape (no update, no      *)
(* body, an incomplete body) gives InvalidMessage.                         *)
DecoderIsTotal ==
    \A v \in value : \A d \in decoded :
        /\ d.type # "panic"
        /\ IF v.update = {} THEN d.type = "InvalidMessage"
           ELSE \A u \in v.update :
                   IF u.type = "Rollback"
                   THEN d.type = "Rollback" /\ d.id = bs58_encode(v.id)
                   ELSE IF u.body = {} THEN d.type = "InvalidMessage"
                   ELSE \A body \in u.body :
                           IF ~CompleteBody(body) THEN d.type = "InvalidMessage"
                           ELSE IF body.type = "Block"
                           THEN /\ d.type = "Block"
                                /\ d.id = bs58_encode(v.id)
                                /\ \A b \in body.block : \A h \in b.header :
                                      d.time_stamp = {h.timestamp}
                           ELSE /\ d.type = "Microblock"
                                /\ \A m \in body.micro_block :
                                      d.id = bs58_encode(m.total_block_id)
                                /\ d.time_stamp = {}


(* The entries of one transaction, the last occurrence of every            *)
(* (address, key) only, each with the id of the transaction                *)
RECURSIVE last_occurrences(_, _)
last_occurrences(entries, transaction_id) ==
    IF entries = <<>> THEN <<>>
    ELSE LET e == Head(entries)
             later == \E i \in 2..Len(entries) :
                         entries[i].address = e.address /\ entries[i].key = e.key
             rest == last_occurrences(Tail(entries), transaction_id)
         IN IF later THEN rest
            ELSE <<[address |-> e.address, key |-> e.key, value |-> e.value,
                    transaction_id |-> transaction_id]>> \o rest

(* The state updates paired with the transaction ids by index *)
RECURSIVE message_entries(_, _, _)
message_entries(ids, updates, i) ==
    IF i > Len(updates) \/ i > Len(ids) THEN <<>>
    ELSE last_occurrences(updates[i], bs58_encode(ids[i]))
            \o message_entries(ids, updates, i + 1)

(* C27: the Block or Microblock decoded from an Append message carries the *)
(* data entries of the message's transaction state updates, each with the  *)
(* transaction id of the same index, one record for every (address, key)   *)
(* of a transaction (the last occurrence).                                 *)
DecodedCarriesDataEntries ==
    \A v \in value : \A d \in decoded : \A u \in v.update :
        (u.type = "Append" /\ d.type \in {"Block", "Microblock"}) =>
            d.data_entries =
                message_entries(u.transaction_ids, u.transaction_state_updates, 1)


----------------------------------------------------------------------------
(* The columns of position i hold the typed fragment f *)
HoldsFragment(cols, i, f) ==
    IF f.type = "string" THEN cols[i].string = {f.string}
    ELSE cols[i].integer = {f.integer}

(* C28: key parsing round-trips: a key built from up to 11 typed fragments *)
(* with a header of descriptors separated by '%' ('$' or 's' for a string, *)
(* '#' or 'd' for an integer) and the values, joined with "__", gives back *)
(* every fragment in the column of its position and type.                  *)
KeyRoundTrip ==
    \A frs \in fragments : \A cols \in columns :
        entry_key \in SeparatedKeys(frs) =>
            \A i \in 1..Len(frs) : HoldsFragment(cols, i - 1, frs[i])

(* C29: at every position 0..10 a column is null when the fragment of the  *)
(* position is missing or is the empty string, and when the declared type  *)
(* of the fragment is not the type of the column.                          *)
NullFragmentColumns ==
    \A cols \in columns :
        LET frs == split_to_fragments(entry_key)
        IN \A i \in 0..10 :
              /\ (i + 1 > Len(frs) \/ frs[i + 1][2] = <<>>) =>
                    cols[i].string = {} /\ cols[i].integer = {}
              /\ (i + 1 <= Len(frs) /\ frs[i + 1][1] # STRING_DESCRIPTOR) =>
                    cols[i].string = {}
              /\ (i + 1 <= Len(frs) /\ frs[i + 1][1] # INTEGER_DESCRIPTOR) =>
                    cols[i].integer = {}


----------------------------------------------------------------------------
(* C30: the null-ness of time_stamp marks exactly the microblocks: a       *)
(* record inserted from a Block event has a time_stamp and a record        *)
(* inserted from a Microblock event has none, so the squash never removes  *)
(* a record that came from a Block event.                                  *)
NullTimestampMarksMicroblocks ==
    /\ [](\A b \in blocks : (b.uid \in block_event_uids) <=> (b.time_stamp # {}))
    /\ [][(step' = "commit" /\ rx # <<>> /\ \A i \in 1..Len(rx) : rx[i].type # "Rollback") =>
             \A u \in block_event_uids : \E b \in blocks' : b.uid = u]_vars

----------------------------------------------------------------------------
(* The row q is the row r: the columns an update never touches *)
KeepsIdentity(r, q) ==
    /\ q.uid = r.uid
    /\ q.address = r.address
    /\ q.key = r.key
    /\ q.value = r.value

(* A squash keeps every row and changes at most its block_uid *)
SquashKeepsRows(pre) ==
    LET post == squash_microblocks(pre)
    IN (pre.ok /\ post.ok) =>
          /\ Cardinality(post.entries) = Cardinality(pre.entries)
          /\ \A r \in pre.entries : \E q \in post.entries :
                KeepsIdentity(r, q) /\ q.superseded_by = r.superseded_by

(* An append keeps every row and changes at most the superseded_by of rows *)
(* that were current                                                       *)
AppendKeepsRows(pre, appends) ==
    LET post == append_blocks_or_microblocks(pre, appends)
    IN (pre.ok /\ post.ok) =>
          \A r \in pre.entries : \E q \in post.entries :
              /\ KeepsIdentity(r, q)
              /\ q.block_uid = r.block_uid
              /\ q.superseded_by # r.superseded_by => r.superseded_by = MAX_UID

(* C31: data-entry rows are destroyed only by rollback.  A block append, a *)
(* microblock append and a squash, with its deletion of microblock         *)
(* records, remove no data-entry row and change no row's uid, address, key *)
(* or value; a squash changes only block_uid, an append changes only the   *)
(* superseded_by of rows that were current; so a committed batch without a *)
(* Rollback keeps every row of the store.                                  *)
RowsDestroyedOnlyByRollback ==
    [][/\ step' \in {"commit", "abort"} =>
             LET items == UpdatesItems(rx)
             IN \A i \in 1..Len(items) :
                   LET pre == handle_items(Store, items, i - 1)
                   IN /\ items[i].type = "Blocks" =>
                            /\ SquashKeepsRows(pre)
                            /\ AppendKeepsRows(squash_microblocks(pre), items[i].blocks)
                      /\ items[i].type = "Microblock" =>
                            AppendKeepsRows(pre, <<items[i].mba>>)
       /\ (step' = "commit" /\ \A i \in 1..Len(rx) : rx[i].type # "Rollback") =>
             \A r \in data_entries : \E q \in data_entries' : KeepsIdentity(r, q)]_vars

(* A squash renamed a key block and a later append closed an entry that is *)
(* attached to it                                                          *)
RowsDestroyedOnlyByRollbackWitness ==
    /\ step = "commit"
    /\ \E k \in blocks : \E r \in data_entries : \E q \in data_entries :
          /\ k.height # HeightOf[k.id]
          /\ r.block_uid = k.uid
          /\ q.uid = r.superseded_by
          /\ q.block_uid > k.uid

----------------------------------------------------------------------------
(* No two rows of one (address, key) are current *)
AtMostOneCurrent(rows) ==
    \A r \in rows : \A q \in rows :
        (SameKey(r, q) /\ r.superseded_by = MAX_UID /\ q.superseded_by = MAX_UID)
            => r = q

(* The call of append_data_entries that appending the list makes: the     *)
(* working copy after the block records are inserted and the entries of   *)
(* the list with the uids of their records                                *)
AppendCall(pre, appends) ==
    [db |-> insert_blocks_or_microblocks(pre,
                [i \in 1..Len(appends) |->
                    [id |-> appends[i].id, height |-> appends[i].height,
                     time_stamp |-> appends[i].time_stamp]]),
     updates |-> flatten_data_entries(inserted_uids(pre, appends), appends, 1)]

(* Through the steps of one append no two rows of a key are current, and  *)
(* between the close and the insert no row of an appended key is current  *)
ClosedBeforeInserted(pre, appends) ==
    LET call == AppendCall(pre, appends)
        s == append_data_entries_steps(call.db, call.updates)
    IN (pre.ok /\ call.db.ok /\ Len(call.updates) > 0) =>
          /\ s[4] = append_blocks_or_microblocks(pre, appends)
          /\ \A i \in 1..4 : s[i].ok => AtMostOneCurrent(s[i].entries)
          /\ s[2].ok =>
                \A r \in s[2].entries :
                    (\E j \in 1..Len(call.updates) :
                        /\ call.updates[j].data_entry.address = r.address
                        /\ call.updates[j].data_entry.key = r.key)
                      => r.superseded_by # MAX_UID

(* C32: within append_data_entries the previous current rows are closed   *)
(* before the new rows are inserted: after the close no row of an         *)
(* appended (address, key) is current, and at no step of the append do    *)
(* two rows of one (address, key) both carry superseded_by = MAX_UID.     *)
ClosingPrecedesInsertion ==
    [][step' \in {"commit", "abort"} =>
          LET items == UpdatesItems(rx)
          IN \A i \in 1..Len(items) :
                LET pre == handle_items(Store, items, i - 1)
                IN /\ items[i].type = "Blocks" =>
                         ClosedBeforeInserted(squash_microblocks(pre), items[i].blocks)
                   /\ items[i].type = "Microblock" =>
                         ClosedBeforeInserted(pre, <<items[i].mba>>)]_vars

(* An append closed the current row another record's append had inserted  *)
(* and inserted the new current row                                       *)
ClosingPrecedesInsertionWitness ==
    /\ step = "commit"
    /\ \E r \in data_entries : \E q \in data_entries :
          /\ SameKey(r, q)
          /\ r.superseded_by = q.uid
          /\ q.superseded_by = MAX_UID
          /\ r.block_uid < q.block_uid
          /\ data_entries_uid_seq = q.uid + 1

----------------------------------------------------------------------------
(* The positions after i of the entries of the (address, key) of entry i *)
LaterOfGroup(updates, i) ==
    {j \in (i + 1)..Len(updates) :
        /\ updates[j].data_entry.address = updates[i].data_entry.address
        /\ updates[j].data_entry.key = updates[i].data_entry.key}

(* The positions of the entries of the (address, key) of the row r *)
GroupOf(updates, r) ==
    {j \in 1..Len(updates) :
        /\ updates[j].data_entry.address = r.address
        /\ updates[j].data_entry.key = r.key}

(* One append_data_entries call: uids in input order from the sequence    *)
(* value, groups linked, previous current rows closed, sequence advanced  *)
AssignsAndLinks(pre, appends) ==
    LET call == AppendCall(pre, appends)
        updates == call.updates
        N == Len(updates)
        first == get_next_update_uid(call.db)
        post == append_data_entries(call.db, updates)
    IN (pre.ok /\ call.db.ok /\ N > 0) =>
          /\ post.ok
          /\ post = append_blocks_or_microblocks(pre, appends)
          /\ get_next_update_uid(post) = first + N
          /\ Cardinality(post.entries) = Cardinality(call.db.entries) + N
          /\ \A i \in 1..N : \E q \in post.entries :
                /\ q.uid = first + (i - 1)
                /\ q.address = updates[i].data_entry.address
                /\ q.key = updates[i].data_entry.key
                /\ q.value = updates[i].data_entry.value
                /\ q.block_uid = updates[i].block_uid
                /\ q.superseded_by =
                      IF LaterOfGroup(updates, i) = {} THEN MAX_UID
                      ELSE first + (Min(LaterOfGroup(updates, i)) - 1)
          /\ \A r \in call.db.entries : \E q \in post.entries :
                /\ KeepsIdentity(r, q)
                /\ q.superseded_by =
                      IF r.superseded_by = MAX_UID /\ GroupOf(updates, r) # {}
                      THEN first + (Min(GroupOf(updates, r)) - 1)
                      ELSE r.superseded_by

(* C33: one append of N data entries starting from the sequence value     *)
(* start gives the i-th entry, in input order and counted from 0, the uid *)
(* start + i; each entry's superseded_by is the uid of the next entry of  *)
(* its (address, key) group and the last entry of a group carries         *)
(* MAX_UID; the previously current row of the (address, key) gets the     *)
(* group's first uid as superseded_by; the sequence is left at start + N. *)
AppendAssignsUidsAndLinks ==
    [][step' \in {"commit", "abort"} =>
          LET items == UpdatesItems(rx)
          IN \A i \in 1..Len(items) :
                LET pre == handle_items(Store, items, i - 1)
                IN /\ items[i].type = "Blocks" =>
                         AssignsAndLinks(squash_microblocks(pre), items[i].blocks)
                   /\ items[i].type = "Microblock" =>
                         AssignsAndLinks(pre, <<items[i].mba>>)]_vars

(* One append inserted two entries of a key whose current row an earlier  *)
(* append had inserted: three rows chained 1 -> 2 -> 3 -> MAX_UID over    *)
(* three records                                                          *)
AppendAssignsUidsAndLinksWitness ==
    /\ step = "commit"
    /\ data_entries_uid_seq = 4
    /\ blocks_uid_seq = 4
    /\ Cardinality(blocks) = 3
    /\ \E p \in data_entries : \E r \in data_entries : \E q \in data_entries :
          /\ SameKey(p, r) /\ SameKey(r, q)
          /\ p.uid = 1 /\ p.superseded_by = 2 /\ p.block_uid = 1
          /\ r.uid = 2 /\ r.superseded_by = 3 /\ r.block_uid = 2
          /\ q.uid = 3 /\ q.superseded_by = MAX_UID /\ q.block_uid = 3

----------------------------------------------------------------------------
(* C34: referential integrity.  After every committed transaction every   *)
(* data entry's block_uid is the uid of a record of blocks_microblocks:   *)
(* neither the squash, which deletes microblock records, nor the          *)
(* rollback, which deletes the records above its target, leaves a data    *)
(* entry that points to a deleted record.                                 *)
EntriesReferToBlocks ==
    \A r \in data_entries : \E b \in blocks : b.uid = r.block_uid

----------------------------------------------------------------------------
(* C35: every batch the source task sends is non-empty, is made of zero   *)
(* or more Block events followed by at most one Microblock or Rollback    *)
(* event, and holds at most batch_max_size events (batch_max_size >= 1);  *)
(* so the daemon's coalescing makes at most two items of it.              *)
SentBatchesAreBlocksThenOne ==
    batch_max_size >= 1 =>
        \A i \in 1..Len(tx) :
            LET updates == tx[i].updates
            IN /\ Len(updates) >= 1
               /\ \A j \in 1..(Len(updates) - 1) : updates[j].type = "Block"
               /\ Len(updates) <= batch_max_size
               /\ Len(UpdatesItems(updates)) <= 2

(* A full batch was sent: a Block and the Rollback that flushed it, which *)
(* coalesce into two items                                                *)
SentBatchesAreBlocksThenOneWitness ==
    \E i \in 1..Len(tx) :
        /\ Len(tx[i].updates) = batch_max_size
        /\ Len(tx[i].updates) = 2
        /\ tx[i].updates[1].type = "Block"
        /\ tx[i].updates[2].type = "Rollback"
        /\ Len(UpdatesItems(tx[i].updates)) = 2

----------------------------------------------------------------------------
(* The events of a sequence of batches, in order *)
RECURSIVE Concat(_)
Concat(batches) ==
    IF batches = <<>> THEN <<>>
    ELSE Head(batches).updates \o Concat(Tail(batches))

(* C36: batching loses, duplicates and reorders nothing.  At any time the *)
(* batches sent so far, concatenated, followed by the pending batch are    *)
(* the events decoded from the upstream stream so far, in order; and the  *)
(* daemon receives the batches in the order they were sent: what it has   *)
(* received followed by what the channel still holds is what was sent.    *)
BatchingKeepsEveryEvent ==
    /\ Concat(tx) \o result = stream_events
    /\ received_batches \o channel = tx

(* Two batches were sent and received while a third event is pending *)
BatchingKeepsEveryEventWitness ==
    /\ Len(tx) = 2
    /\ Len(received_batches) = 2
    /\ Len(result) = 1
    /\ Len(stream_events) = 3
    /\ tx[1] # tx[2]

----------------------------------------------------------------------------
(* What a rollback to block_uid leaves alone *)
RollbackKeepsBelow(pre, block_uid) ==
    LET post == rollback(pre, block_uid)
        deleted == {r \in pre.entries : r.block_uid > block_uid}
    IN (pre.ok /\ post.ok) =>
          /\ \A b \in pre.blocks : b.uid <= block_uid => b \in post.blocks
          /\ \A b \in post.blocks : b \in pre.blocks
          /\ \A r \in pre.entries :
                r.block_uid <= block_uid =>
                    \E q \in post.entries :
                        /\ KeepsIdentity(r, q)
                        /\ q.block_uid = r.block_uid
                        /\ q.superseded_by # r.superseded_by =>
                              \E d \in deleted : d.uid = r.superseded_by

(* C37: a rollback to block_uid leaves everything at or below the target  *)
(* untouched.  It deletes no block record with uid <= block_uid and no    *)
(* data entry with block_uid <= block_uid, changes no id, height or       *)
(* time_stamp of a surviving record, and changes superseded_by only on    *)
(* surviving rows whose superseded_by was the uid of a deleted entry.     *)
RollbackTouchesOnlyAbove ==
    [][/\ step' = "start" =>
             LET prev == get_handled_height(Store, start_rollback_depth')
             IN prev # {} =>
                   LET target == (CHOOSE p \in prev : TRUE).uid
                   IN /\ RollbackKeepsBelow(Store, target)
                      /\ blocks' = rollback(Store, target).blocks
                      /\ data_entries' = rollback(Store, target).entries
       /\ step' \in {"commit", "abort"} =>
             LET items == UpdatesItems(rx)
             IN \A i \in 1..Len(items) :
                   items[i].type = "Rollback" =>
                       LET pre == handle_items(Store, items, i - 1)
                           found == get_block_uid(pre, items[i].sig)
                       IN found # {} =>
                             /\ RollbackKeepsBelow(pre, CHOOSE u \in found : TRUE)
                             /\ handle_items(Store, items, i) =
                                   rollback(pre, CHOOSE u \in found : TRUE)]_vars

(* A committed rollback deleted the third entry and its record: the two   *)
(* entries below, of different keys, are both current, so one of them was *)
(* reopened                                                               *)
RollbackTouchesOnlyAboveWitness ==
    /\ step = "commit"
    /\ data_entries_uid_seq = 4
    /\ blocks_uid_seq = 4
    /\ Cardinality(blocks) = 2
    /\ \E r \in data_entries : \E q \in data_entries :
          /\ data_entries = {r, q}
          /\ r.uid = 1 /\ q.uid = 2
          /\ r.key # q.key
          /\ r.superseded_by = MAX_UID /\ q.superseded_by = MAX_UID

----------------------------------------------------------------------------
(* A Microblock item adds one record and leaves the others, and the       *)
(* block_uid of every data entry, as they were                            *)
MicroblockOnlyAppends(pre, post, mba) ==
    (pre.ok /\ post.ok) =>
        /\ post.blocks = pre.blocks \cup
              {[uid |-> pre.bseq, id |-> mba.id, height |-> mba.height,
                time_stamp |-> mba.time_stamp]}
        /\ \A r \in pre.entries : \E q \in post.entries :
              q.uid = r.uid /\ q.block_uid = r.block_uid

(* A Blocks item squashes first: no record that had no time_stamp before  *)
(* the item is there after it                                             *)
BlocksSquashFirst(pre, post) ==
    (pre.ok /\ post.ok) =>
        \A m \in pre.blocks : m.time_stamp = {} =>
            ~\E b \in post.blocks : b.uid = m.uid

(* C38: a Microblock item is appended without squashing.  Processing it   *)
(* deletes no block record, changes no existing record's id and changes   *)
(* no data entry's block_uid; the squash runs only when a following       *)
(* Blocks item is processed.                                              *)
MicroblockAppendsWithoutSquash ==
    [][step' \in {"commit", "abort"} =>
          LET items == UpdatesItems(rx)
          IN \A i \in 1..Len(items) :
                LET pre == handle_items(Store, items, i - 1)
                    post == handle_items(Store, items, i)
                IN /\ items[i].type = "Microblock" =>
                         MicroblockOnlyAppends(pre, post, items[i].mba)
                   /\ items[i].type = "Blocks" => BlocksSquashFirst(pre, post)]_vars

(* A Microblock item was appended on top of an earlier microblock record  *)
(* that holds a data entry: both records are there, above their key block *)
MicroblockAppendsWithoutSquashWitness ==
    /\ step = "commit"
    /\ \E k \in blocks : \E m \in blocks : \E n \in blocks :
          /\ k.time_stamp # {}
          /\ m.time_stamp = {} /\ m.uid \notin block_event_uids
          /\ n.time_stamp = {} /\ n.uid \notin block_event_uids
          /\ k.uid < m.uid /\ m.uid < n.uid
          /\ n.uid = blocks_uid_seq - 1
          /\ \E r \in data_entries : r.block_uid = m.uid

====
